---------------------------- MODULE Spec2Model ----------------------------
(***************************************************************************)
(* Verification model of the eCTF 2025 decoder (AFeCTF/ectf-2025-rust).    *)
(*                                                                         *)
(* Eight specifications share the module:                                  *)
(*   SpecMasks   the mask ladder (libectf::masks::characterize_range) as a *)
(*               pure function applied to every input pair of the bounds,  *)
(*               in its current copy and in the earlier copies of          *)
(*               src/libectf;                                              *)
(*   SpecLookup  the key lookup of the decoder and its earlier copy on the *)
(*               keys of the ranges of SpecMasks;                          *)
(*   Spec        the subscription store: SUBSCRIBE, LIST and power cycles  *)
(*               (Flash::init) over a word-accurate flash log;             *)
(*   SpecFault   Spec with a flash controller whose writes can fail;       *)
(*   SpecDecode  decoding: SUBSCRIBE, DECODE, LIST and power cycles, with  *)
(*               symbolic cryptography;                                    *)
(*   SpecUart    the receive side of the UART transport at byte level: the *)
(*               DMA counter, the host that waits for ACKs and the polling *)
(*               of the command handlers;                                  *)
(*   SpecUartLive  SpecUart with weak fairness of every step;              *)
(*   SpecTx      the transmit side: the header and body bytes of a DECODE  *)
(*               or LIST response and the ACKs of the receiving host.      *)
(*                                                                         *)
(* Timestamps are u64 in the firmware and the ladder is {0,2,...,62}.  The *)
(* model keeps the shape (step 2, top level two bits below the width) and  *)
(* scales the width: NumMasks levels, timestamps of 2*NumMasks bits.       *)
(***************************************************************************)
EXTENDS Integers, Sequences, FiniteSets, TLC

\* ------------------------------------------------------------------ bounds

\* Number of ladder levels kept (the firmware has 32).
NumMasks == 3

\* SpecMasks draws range ends within this distance of 0 or of the maximum.
RangeNear == 32

\* ------------------------------------------------------- libectf::masks

\* masks.rs:6  MASKS = [0, 2, 4, ..., 62], cut to the first NumMasks levels.
MASKS == [i \in 0..(NumMasks - 1) |-> 2 * i]

\* Width of a timestamp: u64 for the ladder ending at 62.
TsBits == MASKS[NumMasks - 1] + 2

TsMod == 2 ^ TsBits

\* u64::MAX
TsMax == TsMod - 1

Timestamps == 0..TsMax

\* (1 << mask) - 1
BlockSpan(mask) == (2 ^ mask) - 1

\* a & span, for span = (1 << mask) - 1
AndSpan(a, mask) == a % (2 ^ mask)

\* a | span, for span = (1 << mask) - 1
OrSpan(a, mask) == a - (a % (2 ^ mask)) + BlockSpan(mask)

\* a & !span, for span = (1 << mask) - 1
AndNotSpan(a, mask) == a - (a % (2 ^ mask))

\* (x ^ t) >> mask == 0
XorShrIsZero(x, t, mask) == (x \div (2 ^ mask)) = (t \div (2 ^ mask))

\* wrapping_add(1) on the timestamp width
WrappingInc(a) == (a + 1) % TsMod

\* Mutant of CanWiden: the alignment test of the next level is forgotten.
CanWidenNoAlign(a, b, mask_idx) ==
    /\ mask_idx < NumMasks - 1
    /\ OrSpan(a, MASKS[mask_idx + 1]) <= b

\* Mutant of CanWiden: the ladder is never climbed beyond its second level.
CanWidenOneLevel(a, b, mask_idx) ==
    /\ mask_idx < 1
    /\ AndSpan(a, MASKS[mask_idx + 1]) = 0
    /\ OrSpan(a, MASKS[mask_idx + 1]) <= b

\* Mutant of CanWiden: the ladder is never climbed.
CanWidenNever(a, b, mask_idx) == FALSE

\* masks.rs:15-17  the test that moves the cursor to the next wider level
CanWiden(a, b, mask_idx) ==
    /\ mask_idx < NumMasks - 1
    /\ AndSpan(a, MASKS[mask_idx + 1]) = 0
    /\ OrSpan(a, MASKS[mask_idx + 1]) <= b

\* masks.rs:14-29  the loop of characterize_range, one call per iteration
RECURSIVE CharacterizeLoop(_, _, _, _)
CharacterizeLoop(a, b, mask_idx, res) ==
    IF ~(a <= b) THEN res
    ELSE IF CanWiden(a, b, mask_idx)
         THEN CharacterizeLoop(a, b, mask_idx + 1, res)
         ELSE LET pushed == Append(res, <<a, mask_idx>>)
                  next_a == WrappingInc(OrSpan(a, MASKS[mask_idx]))
              IN  IF next_a = 0 THEN pushed
                  ELSE CharacterizeLoop(next_a, b, 0, pushed)

\* masks.rs:9-32
characterize_range(a, b) == CharacterizeLoop(a, b, 0, <<>>)

\* src/libectf/src/masks.rs:10-25 and src/libectf/src/crypto.rs:122-137  the
\* loop of the earlier copies of characterize_range, which advance the cursor
\* with `(a | block_span) + 1`: past u64::MAX the sum wraps to 0 in a build
\* without overflow checks and panics in a build with them.
RECURSIVE CharacterizeLoopLegacy(_, _, _, _, _)
CharacterizeLoopLegacy(a, b, mask_idx, res, overflow_checks) ==
    IF ~(a <= b) THEN [res |-> res, panicked |-> FALSE]
    ELSE IF CanWiden(a, b, mask_idx)
         THEN CharacterizeLoopLegacy(a, b, mask_idx + 1, res, overflow_checks)
         ELSE LET pushed == Append(res, <<a, mask_idx>>)
                  sum    == OrSpan(a, MASKS[mask_idx]) + 1
              IN  IF sum > TsMax
                  THEN [res |-> pushed, panicked |-> overflow_checks]
                  ELSE CharacterizeLoopLegacy(sum, b, 0, pushed, overflow_checks)

\* src/libectf/src/masks.rs:5-28, src/libectf/src/crypto.rs:117-140
characterize_range_legacy(a, b, overflow_checks) ==
    CharacterizeLoopLegacy(a, b, 0, <<>>, overflow_checks)

\* subscription.rs:57-58  membership of t in the block (start_timestamp, mask_idx)
BlockContains(block, t) == XorShrIsZero(block[1], t, MASKS[block[2]])

\* ------------------------------------------------- symbolic cryptography
\* AES, HMAC, SHA-256 and RSA are ideal: a ciphertext opens only under the key
\* that made it, a digest equals another only for equal inputs, a signature
\* verifies only under the matching key for the signed message.

\* key.rs:49-54  Key::for_device(device_id, secrets)
KeyForDevice(device_id, s) == <<"dev", device_id, s>>

\* Mutant of KeyForBitrange: the channel is not hashed into the key.
KeyForBitrangeAnyChannel(t, mask_idx, channel, s) == <<"br", t, mask_idx, 0, s>>

\* key.rs:57-64  Key::for_bitrange(start_timestamp, mask_idx, channel, secrets)
KeyForBitrange(t, mask_idx, channel, s) == <<"br", t, mask_idx, channel, s>>

\* key.rs:67-73  Key::for_frame(timestamp, channel, secrets)
KeyForFrame(t, channel, s) == <<"fk", t, channel, s>>

\* key.rs:78-82  Cipher::encrypt
Encrypt(key, data) == <<"enc", key, data>>

\* key.rs:85-89  Cipher::decrypt
Decrypt(key, data) ==
    IF data[1] = "enc" /\ data[2] = key THEN data[3] ELSE <<"junk", key, data>>

\* subscription.rs:94-104,117  the SHA-256 digest called mac_hash
MacHash(start, end, channel, keys) == <<"sha", start, end, channel, keys>>

\* frame.rs:37-38  SigningKey::from_pkcs1_der(secrets).sign(frame)
Sign(s, frame) == <<"sig", s, frame>>

\* decode.rs:74  verifying_key.verify(&f, &signature)
Verify(s, frame, signature) == signature = <<"sig", s, frame>>

\* build.rs:43-48  FLASH_MAGIC = SHA-256(secrets)[..4]
FLASH_MAGIC(s) == s

\* --------------------------------------------------------- program sizes

\* mem::size_of::<ArchivedSubscriptionDataHeader>(): u64, u64, u32, [u8; 32],
\* padded to the alignment of u64.
SubHeaderSize == 56

\* key.rs:11  KEY_SIZE_BYTES
KEY_SIZE_BYTES == 16

\* mem::size_of::<ArchivedEncodedFramePacketHeader>(): u64, u32, [u8; 64],
\* [u8; 64], padded to the alignment of u64.
FrameHeaderSize == 144

\* mem::size_of::<ArchivedEncodedFramePacket>()
FramePacketSize == FrameHeaderSize + NumMasks * KEY_SIZE_BYTES

\* Bytes of a flash word (read_32 / write_32).
WordBytes == 4

\* flash.rs:10
START_ADDR == 268828672

\* flash.rs:11
NUM_PAGES == 4

\* flash.rs:12
ALIGNMENT == 16

\* max7800x_hal::flc::FLASH_PAGE_SIZE is 8192; the model keeps PageChunks
\* chunks of 16 bytes per page.
PageChunks == 4

FLASH_PAGE_SIZE == ALIGNMENT * PageChunks

END_ADDR == START_ADDR + NUM_PAGES * FLASH_PAGE_SIZE

FlashWords == (NUM_PAGES * FLASH_PAGE_SIZE) \div WordBytes

\* 0xFFFFFFFF, the value of an erased word.
U32_ONES == -1

\* ------------------------------------------------------------ flash words
\* A word of memory is <<tag, payload>>: "u32" a number, "mac" the first word
\* of a digest, "key" the first word of a key, "fill" any other word of a
\* digest, a key or padding, "trail" a word after the last whole key.

U32(n) == <<"u32", n>>

ERASED == U32(U32_ONES)

CORRUPT == <<"bad", 0>>

Fill == <<"fill", 0>>

\* Words of a key slot: ArchivedEncodedSubscriptionKey is 16 bytes.
KeyWords(k) == <<(<<"key", k>>), Fill, Fill, Fill>>

RECURSIVE FlattenKeys(_)
FlattenKeys(keys) ==
    IF keys = <<>> THEN <<>> ELSE KeyWords(Head(keys)) \o FlattenKeys(Tail(keys))

\* subscription.rs:24-33  the archived header followed by the keys, as the
\* bytes a subscription packet holds; trail counts the words that follow.
PacketWords(start, end, channel, mac, keys, trail) ==
    <<U32(start), U32(0), U32(end), U32(0), U32(channel), (<<"mac", mac>>),
      Fill, Fill, Fill, Fill, Fill, Fill, Fill, Fill>>
    \o FlattenKeys(keys)
    \o [i \in 1..trail |-> <<"trail", 0>>]

\* Word index of an address of the flash region.
WordIndex(addr) == (addr - START_ADDR) \div WordBytes

\* Effect of programming a word: bits can only be cleared.
ProgramWord(old, new) ==
    IF old = ERASED THEN new
    ELSE IF new = ERASED \/ new = old THEN old
    ELSE CORRUPT

\* flash.rs:56,106  Flc::write_32
write_32(fl, addr, value) ==
    [w \in DOMAIN fl |->
        IF w = WordIndex(addr) THEN ProgramWord(fl[w], U32(value)) ELSE fl[w]]

\* flash.rs:116  Flc::write_128 of a chunk of at most four words, padded 0xFF
write_128(fl, addr, chunk) ==
    [w \in DOMAIN fl |->
        LET k == w - WordIndex(addr) IN
        IF k >= 0 /\ k < Len(chunk) THEN ProgramWord(fl[w], chunk[k + 1]) ELSE fl[w]]

\* flash.rs:47,73  Flc::read_32
read_32(fl, addr) ==
    LET w == fl[WordIndex(addr)] IN IF w[1] = "u32" THEN w[2] ELSE U32_ONES

\* flash.rs:51  Flc::erase_page, page counted from START_ADDR
erase_page(fl, page) ==
    [w \in DOMAIN fl |->
        IF w \div (FLASH_PAGE_SIZE \div WordBytes) = page THEN ERASED ELSE fl[w]]

\* flash.rs:131-133
addr_before_aligned(current) ==
    ((current + 3) - ((current + 3) % ALIGNMENT)) + ALIGNMENT - 4

\* flash.rs:185-191  TRUE for Ok(())
check_addr(addr) == ~(addr > END_ADDR)

\* ------------------------------------------------ views of stored bytes

Min(x, y) == IF x <= y THEN x ELSE y

\* Words needed to hold len bytes.
WordsOf(len) == (len + WordBytes - 1) \div WordBytes

\* The words of the flash at [addr, addr + len).
BodyWords(fl, addr, len) == [k \in 1..WordsOf(len) |-> fl[WordIndex(addr) + k - 1]]

\* A u64 field held in two words (the model's timestamps fit the low word).
U64Field(lo, hi) ==
    IF lo[1] = "u32" /\ hi = U32(0) /\ lo[2] \in Timestamps THEN lo[2] ELSE TsMax

\* A u32 field.
U32Field(w) == IF w[1] = "u32" THEN w[2] ELSE U32_ONES

\* flash.rs:144,167  the header of the subscription held in words
HeaderOf(words) ==
    [start_timestamp |-> U64Field(words[1], words[2]),
     end_timestamp   |-> U64Field(words[3], words[4]),
     channel         |-> U32Field(words[5]),
     mac_hash        |-> IF words[6][1] = "mac" THEN words[6][2] ELSE <<"raw">>]

\* flash.rs:149-154,172-177  number of key slots of a packet of len bytes
NumKeysOf(len) == (len - SubHeaderSize) \div KEY_SIZE_BYTES

\* Word (1-based) of key slot i (0-based) of a subscription.
KeySlot(i) == (SubHeaderSize + i * KEY_SIZE_BYTES) \div WordBytes + 1

\* flash.rs:149-154,172-177  the keys held in words
KeysOf(words, len) ==
    [i \in 1..NumKeysOf(len) |->
        LET w == words[KeySlot(i - 1)] IN IF w[1] = "key" THEN w[2] ELSE <<"raw">>]

\* Mutant of contains_frame: the end of the range is exclusive.
contains_frame_open_end(header, frame_header) ==
    /\ header.channel = frame_header.channel
    /\ header.start_timestamp <= frame_header.timestamp
    /\ header.end_timestamp > frame_header.timestamp

\* subscription.rs:45-47
contains_frame(header, frame_header) ==
    /\ header.channel = frame_header.channel
    /\ header.start_timestamp <= frame_header.timestamp
    /\ header.end_timestamp >= frame_header.timestamp

NoKey == <<>>

\* subscription.rs:55-60  first zipped pair whose block holds the timestamp
RECURSIVE ZipFind(_, _, _, _)
ZipFind(keys, blocks, t, i) ==
    IF i > Len(keys) \/ i > Len(blocks) THEN NoKey
    ELSE IF BlockContains(blocks[i], t) THEN <<keys[i], blocks[i][2]>>
    ELSE ZipFind(keys, blocks, t, i + 1)

\* Mutant of key_for_frame: the first key is taken, whatever its block.
key_for_frame_first_key(header, frame_header, keys) ==
    IF ~contains_frame(header, frame_header) THEN NoKey
    ELSE <<keys[1],
           characterize_range(header.start_timestamp, header.end_timestamp)[1][2]>>

\* subscription.rs:50-63  Some((key, mask_idx)) or None
key_for_frame(header, frame_header, keys) ==
    IF ~contains_frame(header, frame_header) THEN NoKey
    ELSE ZipFind(keys,
                 characterize_range(header.start_timestamp, header.end_timestamp),
                 frame_header.timestamp, 1)

\* src/libectf/src/subscription.rs:55-61 and src/libectf/src/packet.rs:95-101
\* the loop of the earlier key_for_frame over the keys, each of which carries
\* its mask_idx: the running block start is compared with the timestamp and
\* advanced with `start_timestamp += 1 << mask`, which past u64::MAX panics in
\* a build with overflow checks and wraps in one without.  Yields the position
\* of the key returned, 0 for None.
RECURSIVE LegacyWalk(_, _, _, _, _)
LegacyWalk(keys, start_timestamp, t, i, overflow_checks) ==
    IF i > Len(keys) THEN [panicked |-> FALSE, pos |-> 0]
    ELSE LET mask == MASKS[keys[i].mask_idx] IN
         IF XorShrIsZero(start_timestamp, t, mask) THEN [panicked |-> FALSE, pos |-> i]
         ELSE LET sum == start_timestamp + 2 ^ mask IN
              IF sum > TsMax /\ overflow_checks THEN [panicked |-> TRUE, pos |-> 0]
              ELSE LegacyWalk(keys, sum % TsMod, t, i + 1, overflow_checks)

\* Mutant of key_for_frame_legacy: the running block start begins at 0.
key_for_frame_legacy_from_zero(header, frame_header, keys, overflow_checks) ==
    IF ~contains_frame(header, frame_header) THEN [panicked |-> FALSE, pos |-> 0]
    ELSE LegacyWalk(keys, 0, frame_header.timestamp, 1, overflow_checks)

\* src/libectf/src/subscription.rs:49-64, src/libectf/src/packet.rs:89-104
\* the earlier key_for_frame
key_for_frame_legacy(header, frame_header, keys, overflow_checks) ==
    IF ~contains_frame(header, frame_header) THEN [panicked |-> FALSE, pos |-> 0]
    ELSE LegacyWalk(keys, header.start_timestamp, frame_header.timestamp, 1,
                    overflow_checks)

\* ---------------------------------------------------------------- headend

\* build.rs:26  the decoder the image is built for
DECODER_ID == 1

\* build.rs:50  DECODER_KEY of the image built from the secrets s
DECODER_KEY(s) == KeyForDevice(DECODER_ID, s)

\* subscription.rs:99-111  the bit-range keys of the blocks of [start, end]
RangeKeys(start, end, channel, s) ==
    LET blocks == characterize_range(start, end) IN
    [i \in 1..Len(blocks) |-> KeyForBitrange(blocks[i][1], blocks[i][2], channel, s)]

\* subscription.rs:104-106  each key wrapped under the device key
WrapKeys(keys, device_id, s) ==
    [i \in 1..Len(keys) |-> Encrypt(KeyForDevice(device_id, s), keys[i])]

\* subscription.rs:91-121  SubscriptionData::generate, as packet words
generate(s, start, end, channel, device_id) ==
    LET keys == RangeKeys(start, end, channel, s) IN
    PacketWords(start, end, channel, MacHash(start, end, channel, keys),
                WrapKeys(keys, device_id, s), 0)

\* build.rs:52  CHANNEL_0_KEYS: generate(secrets, 0, u64::MAX, 0, None)
CHANNEL_0_KEYS(s) == RangeKeys(0, TsMax, 0, s)

\* A 64-byte frame.
FrameOf(n) == <<"frame", n>>

\* frame.rs:36-68  Frame::encode; len is the byte length of the packet sent
encode(frame, timestamp, channel, s) ==
    LET frame_key == KeyForFrame(timestamp, channel, s) IN
    [len       |-> FramePacketSize,
     timestamp |-> timestamp,
     channel   |-> channel,
     signature |-> Sign(s, frame),
     frame     |-> Encrypt(frame_key, frame),
     keys      |-> [mask_idx \in 0..(NumMasks - 1) |->
                       Encrypt(KeyForBitrange(AndNotSpan(timestamp, MASKS[mask_idx]),
                                              mask_idx, channel, s),
                               frame_key)]]

\* ------------------------------------------------------------ Flash

\* flash.rs:49-53  erase_page of the first n of the NUM_PAGES pages
RECURSIVE ErasePages(_, _)
ErasePages(fl, n) == IF n = 0 THEN fl ELSE erase_page(ErasePages(fl, n - 1), n - 1)

EraseAll(fl) == ErasePages(fl, NUM_PAGES)

\* Mutant of CheckMagic: the magic is rewritten without erasing the pages.
CheckMagicNoErase(fl, s) ==
    IF read_32(fl, START_ADDR) # FLASH_MAGIC(s)
    THEN write_32(fl, START_ADDR, FLASH_MAGIC(s))
    ELSE fl

\* flash.rs:47-57  the magic check of Flash::init
CheckMagic(fl, s) ==
    IF read_32(fl, START_ADDR) # FLASH_MAGIC(s)
    THEN write_32(EraseAll(fl), START_ADDR, FLASH_MAGIC(s))
    ELSE fl

\* flash.rs:162-182  access_subscription: the view kept in the index
access_subscription(addr, len) == [addr |-> addr, len |-> len]

\* flash.rs:64-88  the scan loop of Flash::init, one call per iteration;
\* yields the index, the cursor and whether check_addr let the scan finish
RECURSIVE ScanLog(_, _, _)
ScanLog(fl, cursor, subs) ==
    LET addr == addr_before_aligned(cursor) IN
    IF ~check_addr(addr) THEN [ok |-> FALSE, subs |-> subs, addr |-> addr]
    ELSE LET len == read_32(fl, addr) IN
         IF len = U32_ONES THEN [ok |-> TRUE, subs |-> subs, addr |-> addr]
         ELSE IF ~check_addr(addr + 4 + len)
              THEN [ok |-> FALSE, subs |-> subs, addr |-> addr + 4]
              ELSE ScanLog(fl, addr + 4 + len,
                           Append(subs, access_subscription(addr + 4, len)))

\* flash.rs:35-41,45-94  Flash::new followed by Flash::init
FlashInit(fl, s) ==
    LET fl1  == CheckMagic(fl, s)
        scan == ScanLog(fl1, START_ADDR + 4, <<>>)
    IN  [flash           |-> fl1,
         subscriptions   |-> scan.subs,
         next_entry_addr |-> IF scan.ok THEN addr_before_aligned(scan.addr) ELSE 0,
         result          |-> IF scan.ok THEN "Ok" ELSE "InvalidAddress"]

\* flash.rs:112-118  the chunks(16) loop: chunk i goes to entry_addr + 16 i
RECURSIVE WriteChunks(_, _, _, _)
WriteChunks(fl, entry_addr, words, i) ==
    IF i * 4 >= Len(words) THEN fl
    ELSE WriteChunks(
            write_128(fl, entry_addr + i * ALIGNMENT,
                      SubSeq(words, i * 4 + 1, Min(i * 4 + 4, Len(words)))),
            entry_addr, words, i + 1)

\* Mutant of FlashAdd: the new record is put in front of the index.
FlashAddInFront(fl, subs, next, words, len) ==
    IF ~check_addr(next + 4 + len)
    THEN [flash |-> fl, subscriptions |-> subs, next_entry_addr |-> next,
          result |-> "InvalidAddress"]
    ELSE LET entry_addr == next + 4 IN
         [flash           |-> WriteChunks(write_32(fl, next, len), entry_addr, words, 0),
          subscriptions   |-> <<access_subscription(entry_addr, len)>> \o subs,
          next_entry_addr |-> addr_before_aligned(entry_addr + len),
          result          |-> "Ok"]

\* Mutant of FlashAdd: a record that does not fit is dropped and reported as
\* stored.
FlashAddSilentFull(fl, subs, next, words, len) ==
    IF ~check_addr(next + 4 + len)
    THEN [flash |-> fl, subscriptions |-> subs, next_entry_addr |-> next,
          result |-> "Ok"]
    ELSE LET entry_addr == next + 4 IN
         [flash           |-> WriteChunks(write_32(fl, next, len), entry_addr, words, 0),
          subscriptions   |-> Append(subs, access_subscription(entry_addr, len)),
          next_entry_addr |-> addr_before_aligned(entry_addr + len),
          result          |-> "Ok"]

\* flash.rs:103-126  Flash::add_subscription
FlashAdd(fl, subs, next, words, len) ==
    IF ~check_addr(next + 4 + len)
    THEN [flash |-> fl, subscriptions |-> subs, next_entry_addr |-> next,
          result |-> "InvalidAddress"]
    ELSE LET entry_addr == next + 4 IN
         [flash           |-> WriteChunks(write_32(fl, next, len), entry_addr, words, 0),
          subscriptions   |-> Append(subs, access_subscription(entry_addr, len)),
          next_entry_addr |-> addr_before_aligned(entry_addr + len),
          result          |-> "Ok"]

\* flash.rs:112  data.chunks(16): the number of write_128 calls for len bytes
NumChunks(len) == (len + ALIGNMENT - 1) \div ALIGNMENT

\* flash.rs:103-126  Flash::add_subscription when a write of the flash
\* controller returns an error (the `?` of flash.rs:106 and flash.rs:116):
\* `failing` = 0 is the write_32 of the length, `failing` = k > 0 the k-th
\* write_128.  The writes before it are done, next_entry_addr has moved past
\* them (flash.rs:108,117), the failing write leaves the flash alone, and
\* neither flash.rs:120 nor the push of flash.rs:123 is reached.
FlashAddFails(fl, subs, next, words, len, failing) ==
    IF ~check_addr(next + 4 + len)
    THEN [flash |-> fl, subscriptions |-> subs, next_entry_addr |-> next,
          result |-> "InvalidAddress"]
    ELSE IF failing = 0
    THEN [flash |-> fl, subscriptions |-> subs, next_entry_addr |-> next,
          result |-> "WriteFailed"]
    ELSE LET entry_addr == next + 4
             written    == SubSeq(words, 1, (failing - 1) * (ALIGNMENT \div WordBytes))
         IN  [flash           |-> WriteChunks(write_32(fl, next, len), entry_addr,
                                              written, 0),
              subscriptions   |-> subs,
              next_entry_addr |-> entry_addr + (failing - 1) * ALIGNMENT,
              result          |-> "WriteFailed"]

\* The header and keys a view of the index points at.
StoredHeader(fl, sub) == HeaderOf(BodyWords(fl, sub.addr, sub.len))

StoredKeys(fl, sub) == KeysOf(BodyWords(fl, sub.addr, sub.len), sub.len)

\* --------------------------------------------------------------- handlers

None == -1

NoFrame == <<"none">>

\* A message sent to the host: opcode, error text, frame, list entries.
Response(opcode, text, frame, list) ==
    [opcode |-> opcode, text |-> text, frame |-> frame, list |-> list]

ErrorResponse(text) == Response("E", text, NoFrame, <<>>)

\* subscribe.rs:36-43  the keys decrypted in place under DECODER_KEY
DecryptKeys(words, len, s) ==
    [w \in 1..Len(words) |->
        IF /\ w >= KeySlot(0)
           /\ w < KeySlot(NumKeysOf(len))
           /\ (w - KeySlot(0)) % (KEY_SIZE_BYTES \div WordBytes) = 0
           /\ words[w][1] = "key"
        THEN <<"key", Decrypt(DECODER_KEY(s), words[w][2])>>
        ELSE words[w]]

\* subscribe.rs:29-31,42,46  the digest the handler computes
ComputedMac(words, len, s) ==
    LET header == HeaderOf(words) IN
    MacHash(header.start_timestamp, header.end_timestamp, header.channel,
            KeysOf(DecryptKeys(words, len, s), len))

\* Mutant of MacMatches: the comparison of the digests is skipped.
MacNotChecked(words, len, s) == TRUE

\* subscribe.rs:46  the comparison with the packet's mac_hash
MacMatches(words, len, s) == ComputedMac(words, len, s) = HeaderOf(words).mac_hash

\* subscription.rs:69-87  ArchivedSubscriptionData::authenticate.  The loop
\* runs over the keys zipped with the blocks of the range; its first pass
\* copies the 16 bytes of the key into an 8-byte buffer (subscription.rs:79),
\* and copy_from_slice panics on slices of different lengths.  With no pass
\* the digest of the three header fields is compared with mac_hash.
authenticate(words, len, device_key) ==
    LET header == HeaderOf(words)
        passes == Min(NumKeysOf(len),
                      Len(characterize_range(header.start_timestamp,
                                             header.end_timestamp)))
    IN  IF passes > 0 THEN [panicked |-> TRUE, result |-> FALSE]
        ELSE [panicked |-> FALSE,
              result   |-> MacHash(header.start_timestamp, header.end_timestamp,
                                   header.channel, <<>>) = header.mac_hash]

\* Mutant of add_subscription: the channel of the header is not looked at.
add_subscription_any_channel(fl, subs, next, words, len, s) ==
    LET keep(text) == [flash |-> fl, subscriptions |-> subs, next_entry_addr |-> next,
                       response |-> ErrorResponse(text)]
    IN
    IF ~MacMatches(words, len, s) THEN keep("Authentication Failed")
    ELSE LET r == FlashAdd(fl, subs, next, DecryptKeys(words, len, s), len) IN
         IF r.result # "Ok" THEN keep("Flash error: InvalidAddress")
         ELSE [flash |-> r.flash, subscriptions |-> r.subscriptions,
               next_entry_addr |-> r.next_entry_addr,
               response |-> Response("S", "", NoFrame, <<>>)]

\* subscribe.rs:10-59  add_subscription on a packet of len bytes
add_subscription(fl, subs, next, words, len, s) ==
    LET keep(text) == [flash |-> fl, subscriptions |-> subs, next_entry_addr |-> next,
                       response |-> ErrorResponse(text)]
    IN
    IF HeaderOf(words).channel = 0 THEN keep("Cannot subscribe to channel 0")
    ELSE IF ~MacMatches(words, len, s) THEN keep("Authentication Failed")
    ELSE LET r == FlashAdd(fl, subs, next, DecryptKeys(words, len, s), len) IN
         IF r.result # "Ok" THEN keep("Flash error: InvalidAddress")
         ELSE [flash |-> r.flash, subscriptions |-> r.subscriptions,
               next_entry_addr |-> r.next_entry_addr,
               response |-> Response("S", "", NoFrame, <<>>)]

\* subscribe.rs:10-59  add_subscription when the write `failing` of the flash
\* controller returns an error: subscribe.rs:51-53 reports what
\* Flash::add_subscription returned
add_subscription_write_fails(fl, subs, next, words, len, s, failing) ==
    LET keep(text) == [flash |-> fl, subscriptions |-> subs, next_entry_addr |-> next,
                       response |-> ErrorResponse(text)]
    IN
    IF HeaderOf(words).channel = 0 THEN keep("Cannot subscribe to channel 0")
    ELSE IF ~MacMatches(words, len, s) THEN keep("Authentication Failed")
    ELSE LET r == FlashAddFails(fl, subs, next, DecryptKeys(words, len, s), len,
                                failing)
         IN  [flash |-> r.flash, subscriptions |-> r.subscriptions,
              next_entry_addr |-> r.next_entry_addr,
              response |-> ErrorResponse("Flash error: " \o r.result)]

\* decode.rs:32-35  the first stored subscription that yields a key
RECURSIVE StoredKeyForFrame(_, _, _, _)
StoredKeyForFrame(fl, subs, frame_header, i) ==
    IF i > Len(subs) THEN NoKey
    ELSE LET key == key_for_frame(StoredHeader(fl, subs[i]), frame_header,
                                  StoredKeys(fl, subs[i]))
         IN  IF key # NoKey THEN key
             ELSE StoredKeyForFrame(fl, subs, frame_header, i + 1)

\* decode.rs:38-43  the dummy header of the emergency channel
Channel0Header ==
    [start_timestamp |-> 0, end_timestamp |-> TsMax, channel |-> 0,
     mac_hash |-> <<"raw">>]

\* Mutant of LookupKey: the latest stored subscription that yields a key.
LookupKeyLatest(fl, subs, packet, s) ==
    LET key(i) == key_for_frame(StoredHeader(fl, subs[i]), packet, StoredKeys(fl, subs[i]))
        hits   == {i \in 1..Len(subs) : key(i) # NoKey}
    IN  IF packet.channel = 0 THEN key_for_frame(Channel0Header, packet, CHANNEL_0_KEYS(s))
        ELSE IF hits = {} THEN NoKey
        ELSE key(CHOOSE i \in hits : \A k \in hits : k <= i)

\* Mutant of LookupKey: channel 0 is looked up in the stored subscriptions.
LookupKeyStoredOnly(fl, subs, packet, s) == StoredKeyForFrame(fl, subs, packet, 1)

\* decode.rs:28-46  the key lookup
LookupKey(fl, subs, packet, s) ==
    IF packet.channel # 0
    THEN StoredKeyForFrame(fl, subs, packet, 1)
    ELSE key_for_frame(Channel0Header, packet, CHANNEL_0_KEYS(s))

\* Mutant of IsFromPast: a frame at the most recent timestamp is let through.
IsFromPastStrict(mrt, timestamp) == mrt # None /\ timestamp < mrt

\* decode.rs:65  most_recent_timestamp.map(|t| timestamp <= t).unwrap_or(false)
IsFromPast(mrt, timestamp) == mrt # None /\ timestamp <= mrt

\* Mutant of decode_frame: T* is written before the signature is verified.
decode_frame_early_update(fl, subs, mrt, packet, s) ==
    LET fail(text) == [most_recent_timestamp |-> mrt, response |-> ErrorResponse(text)]
        key == LookupKey(fl, subs, packet, s)
    IN
    IF packet.len # FramePacketSize THEN fail("Unexpected frame packet size")
    ELSE IF key = NoKey THEN fail("No subscription for frame")
    ELSE LET frame_key == Decrypt(key[1], packet.keys[key[2]])
             f == Decrypt(frame_key, packet.frame)
         IN  IF IsFromPast(mrt, packet.timestamp) THEN fail("Frame is from the past")
             ELSE IF ~Verify(s, f, packet.signature)
                  THEN [most_recent_timestamp |-> packet.timestamp,
                        response |-> ErrorResponse("Frame validation failed")]
             ELSE [most_recent_timestamp |-> packet.timestamp,
                   response |-> Response("D", "", f, <<>>)]

\* Mutant of decode_frame: the size of the body is not compared.
decode_frame_any_size(fl, subs, mrt, packet, s) ==
    LET fail(text) == [most_recent_timestamp |-> mrt, response |-> ErrorResponse(text)]
        key == LookupKey(fl, subs, packet, s)
    IN
    IF key = NoKey THEN fail("No subscription for frame")
    ELSE LET frame_key == Decrypt(key[1], packet.keys[key[2]])
             f == Decrypt(frame_key, packet.frame)
         IN  IF IsFromPast(mrt, packet.timestamp) THEN fail("Frame is from the past")
             ELSE IF ~Verify(s, f, packet.signature) THEN fail("Frame validation failed")
             ELSE [most_recent_timestamp |-> packet.timestamp,
                   response |-> Response("D", "", f, <<>>)]

\* Mutant of decode_frame: the signature is verified before the replay check.
decode_frame_verify_first(fl, subs, mrt, packet, s) ==
    LET fail(text) == [most_recent_timestamp |-> mrt, response |-> ErrorResponse(text)]
        key == LookupKey(fl, subs, packet, s)
    IN
    IF packet.len # FramePacketSize THEN fail("Unexpected frame packet size")
    ELSE IF key = NoKey THEN fail("No subscription for frame")
    ELSE LET frame_key == Decrypt(key[1], packet.keys[key[2]])
             f == Decrypt(frame_key, packet.frame)
         IN  IF ~Verify(s, f, packet.signature) THEN fail("Frame validation failed")
             ELSE IF IsFromPast(mrt, packet.timestamp) THEN fail("Frame is from the past")
             ELSE [most_recent_timestamp |-> packet.timestamp,
                   response |-> Response("D", "", f, <<>>)]

\* Mutant of decode_frame: frames of channel 0 skip the replay check.
decode_frame_channel_0_exempt(fl, subs, mrt, packet, s) ==
    LET fail(text) == [most_recent_timestamp |-> mrt, response |-> ErrorResponse(text)]
        key == LookupKey(fl, subs, packet, s)
    IN
    IF packet.len # FramePacketSize THEN fail("Unexpected frame packet size")
    ELSE IF key = NoKey THEN fail("No subscription for frame")
    ELSE LET frame_key == Decrypt(key[1], packet.keys[key[2]])
             f == Decrypt(frame_key, packet.frame)
         IN  IF packet.channel # 0 /\ IsFromPast(mrt, packet.timestamp)
             THEN fail("Frame is from the past")
             ELSE IF ~Verify(s, f, packet.signature) THEN fail("Frame validation failed")
             ELSE [most_recent_timestamp |-> packet.timestamp,
                   response |-> Response("D", "", f, <<>>)]

\* decode.rs:12-89  decode_frame; yields the new T* and the response
decode_frame(fl, subs, mrt, packet, s) ==
    LET fail(text) == [most_recent_timestamp |-> mrt, response |-> ErrorResponse(text)]
        key == LookupKey(fl, subs, packet, s)
    IN
    IF packet.len # FramePacketSize THEN fail("Unexpected frame packet size")
    ELSE IF key = NoKey THEN fail("No subscription for frame")
    ELSE LET frame_key == Decrypt(key[1], packet.keys[key[2]])
             f == Decrypt(frame_key, packet.frame)
         IN  IF IsFromPast(mrt, packet.timestamp) THEN fail("Frame is from the past")
             ELSE IF ~Verify(s, f, packet.signature) THEN fail("Frame validation failed")
             ELSE [most_recent_timestamp |-> packet.timestamp,
                   response |-> Response("D", "", f, <<>>)]

\* Mutant of ListEntry: the range is written before the channel.
ListEntryRangeFirst(fl, sub) ==
    LET header == StoredHeader(fl, sub) IN
    <<header.start_timestamp, header.end_timestamp, header.channel>>

\* list.rs:16-20  (channel, start, end) of a stored subscription
ListEntry(fl, sub) ==
    LET header == StoredHeader(fl, sub) IN
    <<header.channel, header.start_timestamp, header.end_timestamp>>

\* list.rs:6-29  list_subscriptions: the count, then the entries
list_subscriptions(fl, subs) ==
    Response("L", "", NoFrame,
             <<Len(subs)>> \o [i \in 1..Len(subs) |-> ListEntry(fl, subs[i])])

\* ------------------------------------------------------------ variables

VARIABLES
    range_a,                \* SpecMasks: argument a of characterize_range
    range_b,                \* SpecMasks: argument b of characterize_range
    range_res,              \* SpecMasks: its result, a sequence of <<start, mask_idx>>
    range_pc,               \* SpecMasks: "call" before the call, "done" after it
    lookup,                 \* SpecLookup: a key lookup in the keys of the range
    secret,                 \* the secrets the running image was built from
    flash,                  \* the flash region, word index -> word
    subscriptions,          \* Flash.subscriptions: sequence of [addr, len]
    next_entry_addr,        \* Flash.next_entry_addr
    init_result,            \* what Flash::init returned at the last boot
    most_recent_timestamp,  \* T*: None or the timestamp of the last decoded frame
    cmd,                    \* the last step taken and its input
    response,               \* the message it sent to the host
    decoded_max,            \* history: largest timestamp decoded since boot
    rx_opcode,              \* SpecUart: opcode of the message being received
    rx_length,              \* SpecUart: header.length of that message
    rx_path,                \* SpecUart: the way the handler takes, <<outcome, mask_idx>>
    rx_pc,                  \* SpecUart: where the command loop is
    rx_wait,                \* SpecUart: index of the wait loop the handler is in
    dma_cnt,                \* SpecUart: DMA_CHn_CNT, bytes still to transfer
    dma_read_length,        \* SpecUart: BodyRW.dma_read_length
    last_ack_write,         \* SpecUart: BodyRW.last_ack_write
    host_pc,                \* SpecUart: where the sending host is
    header_acks,            \* SpecUart: history, ACKs sent for the header
    body_acks,              \* SpecUart: history, byte counts at which body ACKs were sent
    tx_opcode,              \* SpecTx: opcode of the response being sent
    tx_length,              \* SpecTx: length in its header
    tx_pc,                  \* SpecTx: where the sending handler is
    tx_cursor,              \* SpecTx: BodyRW.cursor, body bytes written
    tx_acks,                \* SpecTx: ACKs the host sent that the decoder has not read
    tx_acks_read,           \* SpecTx: history, ACKs read by wait_for_ack
    tx_host_pc,             \* SpecTx: where the receiving host is
    tx_host_read,           \* SpecTx: body bytes the host has read
    tx_inbox,               \* SpecTx: what the host sent that the decoder has not read
    tx_pad_left,            \* SpecTx: bytes of an ACK's body wait_for_ack still reads
    tx_host_kinds           \* SpecTx: history, the kinds of answer the host has sent

masksVars == <<range_a, range_b, range_res, range_pc, lookup>>

decoderVars ==
    <<secret, flash, subscriptions, next_entry_addr, init_result,
      most_recent_timestamp, cmd, response, decoded_max>>

uartVars ==
    <<rx_opcode, rx_length, rx_path, rx_pc, rx_wait, dma_cnt, dma_read_length,
      last_ack_write, host_pc, header_acks, body_acks>>

txVars ==
    <<tx_opcode, tx_length, tx_pc, tx_cursor, tx_acks, tx_acks_read, tx_host_pc,
      tx_host_read, tx_inbox, tx_pad_left, tx_host_kinds>>

vars == <<masksVars, decoderVars, uartVars, txVars>>

\* ------------------------------------------------------------ SpecMasks

\* No lookup made.
NoLookup == [t |-> 0, channel |-> 0]

RangeEnds == {t \in Timestamps : t < RangeNear \/ t > TsMax - RangeNear}

NoCmd == [op |-> "none"]

NoResponse == Response("", "", NoFrame, <<>>)

\* The decoder before power-on.
DecoderOff ==
    /\ secret = 0
    /\ flash = [w \in 0..(FlashWords - 1) |-> ERASED]
    /\ subscriptions = <<>>
    /\ next_entry_addr = 0
    /\ init_result = "Off"
    /\ most_recent_timestamp = None
    /\ cmd = NoCmd
    /\ response = NoResponse
    /\ decoded_max = None

\* No message on the serial link.
UartIdle ==
    /\ rx_opcode = ""
    /\ rx_length = 0
    /\ rx_path = <<"", 0>>
    /\ rx_pc = "idle"
    /\ rx_wait = 0
    /\ dma_cnt = 0
    /\ dma_read_length = 0
    /\ last_ack_write = 0
    /\ host_pc = "idle"
    /\ header_acks = 0
    /\ body_acks = <<>>

\* No response being sent.
TxIdle ==
    /\ tx_opcode = ""
    /\ tx_length = 0
    /\ tx_pc = "idle"
    /\ tx_cursor = 0
    /\ tx_acks = 0
    /\ tx_acks_read = 0
    /\ tx_host_pc = "idle"
    /\ tx_host_read = 0
    /\ tx_inbox = <<>>
    /\ tx_pad_left = 0
    /\ tx_host_kinds = {}

InitMasks ==
    /\ range_a \in RangeEnds
    /\ range_b \in RangeEnds
    /\ range_res = <<>>
    /\ range_pc = "call"
    /\ lookup = NoLookup
    /\ DecoderOff
    /\ UartIdle
    /\ TxIdle

Characterize ==
    /\ range_pc = "call"
    /\ range_res' = characterize_range(range_a, range_b)
    /\ range_pc' = "done"
    /\ UNCHANGED <<range_a, range_b, lookup, decoderVars, uartVars, txVars>>

\* A call of an earlier copy of characterize_range, in either kind of build;
\* a panic returns nothing.
CharacterizeLegacy ==
    /\ range_pc = "call"
    /\ \E overflow_checks \in BOOLEAN :
         \E r \in {characterize_range_legacy(range_a, range_b, overflow_checks)} :
            /\ range_res' = IF r.panicked THEN <<>> ELSE r.res
            /\ range_pc' = IF r.panicked THEN "panic" ELSE "done"
    /\ UNCHANGED <<range_a, range_b, lookup, decoderVars, uartVars, txVars>>

NextMasks == Characterize \/ CharacterizeLegacy

SpecMasks == InitMasks /\ [][NextMasks]_vars

\* ------------------------------------------------------------ SpecLookup
\* The two key lookups on the keys of one range.

\* The channel of the subscription looked up in.
LookupChannel == 1

\* src/libectf/src/subscription.rs:96-108  the keys of the earlier generate:
\* one per block, with the block's mask_idx
LegacyKeys(blocks, channel, s) ==
    [i \in 1..Len(blocks) |->
        [mask_idx |-> blocks[i][2],
         key      |-> KeyForBitrange(blocks[i][1], blocks[i][2], channel, s)]]

\* Both lookups for a frame at timestamp t on a channel, in the keys generated
\* from the blocks of the range.
LookupKeys ==
    /\ range_pc = "done"
    /\ \E t \in RangeEnds, channel \in {LookupChannel, LookupChannel + 1},
          overflow_checks \in BOOLEAN :
          LET header == [start_timestamp |-> range_a, end_timestamp |-> range_b,
                         channel |-> LookupChannel]
              frame_header == [timestamp |-> t, channel |-> channel]
          IN  lookup' = [t       |-> t,
                         channel |-> channel,
                         legacy  |-> key_for_frame_legacy(
                                        header, frame_header,
                                        LegacyKeys(range_res, LookupChannel, 1),
                                        overflow_checks),
                         current |-> key_for_frame(
                                        header, frame_header,
                                        RangeKeys(range_a, range_b, LookupChannel, 1))]
    /\ range_pc' = "looked"
    /\ UNCHANGED <<range_a, range_b, range_res, decoderVars, uartVars, txVars>>

NextLookup == Characterize \/ CharacterizeLegacy \/ LookupKeys

SpecLookup == InitMasks /\ [][NextLookup]_vars

\* Number of emitted blocks that contain t.
CoverCount(res, t) == Cardinality({i \in 1..Len(res) : BlockContains(res[i], t)})

\* C2: for a <= b the blocks of characterize_range(a, b) cover [a, b] exactly
\* once: every t in [a, b] lies in exactly one block and no block contains a
\* timestamp outside [a, b].
C2_CoverExactlyOnce ==
    (range_pc = "done" /\ range_a <= range_b) =>
        \A t \in Timestamps :
            CoverCount(range_res, t) = (IF range_a <= t /\ t <= range_b THEN 1 ELSE 0)

\* C2 witness: a decomposition of several blocks of different levels that ends
\* at the largest timestamp.
C2_Witness ==
    /\ range_pc = "done"
    /\ range_a = 1
    /\ range_b = TsMax
    /\ Len(range_res) > 3
    /\ \E i \in 1..Len(range_res) : range_res[i][2] = NumMasks - 1

\* C7 as stated: at most 2*M blocks.
C7_AtMostTwoM ==
    (range_pc = "done" /\ range_a <= range_b) => Len(range_res) <= 2 * NumMasks

\* C7 (amended): with the step-2 ladder a decomposition has at most three
\* blocks per level on the way up and on the way down and two at the top
\* level when both sides are present: at most 6*M - 4 blocks.
C7_AtMostSixM ==
    (range_pc = "done" /\ range_a <= range_b) => Len(range_res) <= 6 * NumMasks - 4

\* C7 witness: the bound is attained.
C7_Witness ==
    /\ range_pc = "done"
    /\ range_a <= range_b
    /\ Len(range_res) = 6 * NumMasks - 4

\* ------------------------------------------------------- command inputs

\* The decoder of another customer.
OTHER_DECODER_ID == 2

\* The deployments' secrets: images are built from one of them.
Secrets == {1, 2}

OtherSecret(s) == IF s = 1 THEN 2 ELSE 1

\* A byte string that differs from x in some bit.
Flip(x) == <<"flip", x>>

\* The subscription packets the host sends: "none" is the headend's packet for
\* this decoder; "key" and "mac" have a bit of the first wrapped key or of the
\* digest flipped; "trail" has eight bytes appended; "forge" is a header with
\* no key and the digest of that header; "device" was generated for another
\* decoder and "secret" by another deployment.
SubscriptionPacket(variant, start, end, channel, s) ==
    LET keys  == RangeKeys(start, end, channel, s)
        mac   == MacHash(start, end, channel, keys)
        wrap  == WrapKeys(keys, DECODER_ID, s)
        bad   == [i \in 1..Len(wrap) |-> IF i = 1 THEN Flip(wrap[i]) ELSE wrap[i]]
    IN  CASE variant = "none"   -> generate(s, start, end, channel, DECODER_ID)
          [] variant = "key"    -> PacketWords(start, end, channel, mac, bad, 0)
          [] variant = "mac"    -> PacketWords(start, end, channel, Flip(mac), wrap, 0)
          [] variant = "trail"  -> PacketWords(start, end, channel, mac, wrap, 2)
          [] variant = "forge"  -> PacketWords(start, end, channel,
                                               MacHash(start, end, channel, <<>>),
                                               <<>>, 0)
          [] variant = "device" -> generate(s, start, end, channel, OTHER_DECODER_ID)
          [] variant = "secret" -> generate(OtherSecret(s), start, end, channel,
                                            DECODER_ID)

\* The frame packets the host sends: "none" is the headend's packet; the
\* others replace one field of it after encoding.
FramePacket(tamper, n, t, c, t2, c2, s) ==
    LET packet == encode(FrameOf(n), t, c, s) IN
    CASE tamper = "none"      -> packet
      [] tamper = "timestamp" -> [packet EXCEPT !.timestamp = t2]
      [] tamper = "channel"   -> [packet EXCEPT !.channel = c2]
      [] tamper = "size"      -> [packet EXCEPT !.len = FramePacketSize - KEY_SIZE_BYTES]

\* --------------------------------------------------------------- decoder

\* Power-on with the image built from s: Flash::new, Flash::init, T* = None.
Boot(s) ==
    \E r \in {FlashInit(flash, s)} :
    /\ secret' = s
    /\ flash' = r.flash
    /\ subscriptions' = r.subscriptions
    /\ next_entry_addr' = r.next_entry_addr
    /\ init_result' = r.result
    /\ most_recent_timestamp' = None
    /\ decoded_max' = None
    /\ cmd' = [op |-> "boot",
               rotated |-> read_32(flash, START_ADDR) # FLASH_MAGIC(s),
               stored |-> Len(subscriptions)]
    /\ response' = NoResponse
    /\ UNCHANGED <<masksVars, uartVars, txVars>>

\* The decoder after its first power-on, on factory flash.
InitDecoder ==
    LET r == FlashInit([w \in 0..(FlashWords - 1) |-> ERASED], 1) IN
    /\ secret = 1
    /\ flash = r.flash
    /\ subscriptions = r.subscriptions
    /\ next_entry_addr = r.next_entry_addr
    /\ init_result = r.result
    /\ most_recent_timestamp = None
    /\ decoded_max = None
    /\ cmd = NoCmd
    /\ response = NoResponse
    /\ range_a = 0
    /\ range_b = 0
    /\ range_res = <<>>
    /\ range_pc = "idle"
    /\ lookup = NoLookup
    /\ UartIdle
    /\ TxIdle

\* SUBSCRIBE with the packet `words`.
Subscribe(variant, words) ==
    \E r \in {add_subscription(flash, subscriptions, next_entry_addr, words,
                               WordBytes * Len(words), secret)} :
    /\ init_result = "Ok"
    /\ flash' = r.flash
    /\ subscriptions' = r.subscriptions
    /\ next_entry_addr' = r.next_entry_addr
    /\ response' = r.response
    /\ cmd' = [op |-> "subscribe", variant |-> variant, words |-> words,
               len |-> WordBytes * Len(words),
               authenticate |-> authenticate(words, WordBytes * Len(words),
                                             DECODER_KEY(secret))]
    /\ UNCHANGED <<secret, init_result, most_recent_timestamp, decoded_max, masksVars,
                   uartVars, txVars>>

\* DECODE with `packet`, made from frame n encoded at (t, c).
Decode(tamper, n, t, c, packet) ==
    \E r \in {decode_frame(flash, subscriptions, most_recent_timestamp, packet, secret)} :
    /\ init_result = "Ok"
    /\ most_recent_timestamp' = r.most_recent_timestamp
    /\ response' = r.response
    /\ decoded_max' = IF r.response.opcode = "D" /\ packet.timestamp > decoded_max
                      THEN packet.timestamp ELSE decoded_max
    /\ cmd' = [op |-> "decode", tamper |-> tamper, frame |-> n, timestamp |-> t,
               channel |-> c, packet |-> packet,
               after |-> IF cmd.op = "decode" /\ response.opcode = "D"
                         THEN cmd.packet.channel ELSE None]
    /\ UNCHANGED <<secret, flash, subscriptions, next_entry_addr, init_result, masksVars,
                   uartVars, txVars>>

\* LIST.
List ==
    /\ init_result = "Ok"
    /\ response' = list_subscriptions(flash, subscriptions)
    /\ cmd' = [op |-> "list"]
    /\ UNCHANGED <<secret, flash, subscriptions, next_entry_addr, init_result,
                   most_recent_timestamp, decoded_max, masksVars,
                   uartVars, txVars>>

\* ------------------------------------------------------------------ Spec
\* The subscription store: SUBSCRIBE, LIST and power cycles, with the image
\* of either deployment.

StoreRanges == {<<4, 7>>, <<4, 11>>}

\* A range whose start lies behind its end: gen_subscription (lib.rs:25-26)
\* passes start and end on as given.
EmptyRange == <<11, 4>>

\* The packets sent: those the handler stores for either range, those it
\* refuses for the first range, packets for the emergency channel, and the
\* headend's packet for another decoder and an empty range.
StoreInputs ==
    ({"none", "trail", "forge"} \X StoreRanges \X {1})
    \cup ({"key", "mac", "device", "secret"} \X {<<4, 7>>} \X {1})
    \cup ({"none", "mac"} \X {<<4, 7>>} \X {0})
    \cup ({"device"} \X {EmptyRange} \X {1})

StoreSubscribe ==
    \E input \in StoreInputs :
        Subscribe(input[1], SubscriptionPacket(input[1], input[2][1], input[2][2],
                                                input[3], secret))

StoreBoot == \E s \in Secrets : Boot(s)

Init == InitDecoder

Next == StoreSubscribe \/ List \/ StoreBoot

Spec == Init /\ [][Next]_vars

\* ------------------------------------------------------------ SpecFault
\* The subscription store with a flash controller whose writes can fail.

\* SUBSCRIBE with the packet `words` during which the write `failing` fails.
SubscribeFails(variant, words, failing) ==
    \E r \in {add_subscription_write_fails(flash, subscriptions, next_entry_addr,
                                            words, WordBytes * Len(words), secret,
                                            failing)} :
    /\ init_result = "Ok"
    /\ flash' = r.flash
    /\ subscriptions' = r.subscriptions
    /\ next_entry_addr' = r.next_entry_addr
    /\ response' = r.response
    /\ cmd' = [op |-> "subscribe", variant |-> variant, words |-> words,
               len |-> WordBytes * Len(words),
               authenticate |-> authenticate(words, WordBytes * Len(words),
                                             DECODER_KEY(secret)),
               failing |-> failing]
    /\ UNCHANGED <<secret, init_result, most_recent_timestamp, decoded_max, masksVars,
                   uartVars, txVars>>

\* The packets sent: the headend's packets for either range and one with a
\* flipped digest.
FaultInputs == ({"none"} \X StoreRanges \X {1}) \cup {<<"mac", <<4, 7>>, 1>>}

\* Flash::add_subscription writes the body with write_128 at
\* next_entry_addr + 4 (flash.rs:116).  What the controller does with an
\* address that is not a multiple of 16 is not in this source, so SUBSCRIBE is
\* taken only while next_entry_addr is where Flash::init and a completed
\* insert leave it.
OnGrid(next) == next = addr_before_aligned(next)

FaultSubscribe ==
    /\ OnGrid(next_entry_addr)
    /\ \E input \in FaultInputs :
          Subscribe(input[1], SubscriptionPacket(input[1], input[2][1], input[2][2],
                                                  input[3], secret))

FaultSubscribeFails ==
    /\ OnGrid(next_entry_addr)
    /\ \E input \in FaultInputs :
          LET words == SubscriptionPacket(input[1], input[2][1], input[2][2],
                                          input[3], secret)
          IN  \E failing \in 0..NumChunks(WordBytes * Len(words)) :
                 SubscribeFails(input[1], words, failing)

FaultList == List

FaultBoot == \E s \in Secrets : Boot(s)

NextFault == FaultSubscribe \/ FaultSubscribeFails \/ FaultList \/ FaultBoot

SpecFault == InitDecoder /\ [][NextFault]_vars

\* ------------------------------------------------------------ SpecDecode
\* Decoding: SUBSCRIBE of headend and forged packets, DECODE of encoded and
\* tampered frame packets, power cycles of one image.

\* Subscriptions stored before SpecDecode stops subscribing.
MaxStored == 2

\* Frames the headend encodes.
NumFrames == 2

\* The subscription packets sent, all for channel 1: the headend's packets
\* for two overlapping ranges and a forged header for the first range.
SubscribeInputs == {<<"none", 4, 11>>, <<"none", 10, 13>>, <<"forge", 4, 11>>}

FrameTimes == {3, 4, 5, 11, 12}

FrameChannels == {0, 1, 2}

\* The frame packets sent, <<tamper, frame, t, c, t2, c2>>: every frame at
\* every time on channel 1 and one frame on the other channels, as encoded;
\* packets with the timestamp, the channel or the size changed.
FrameInputs ==
    {<<"none", n, t, 1, t, 1>> : n \in 1..NumFrames, t \in FrameTimes}
    \cup {<<"none", 1, t, c, t, c>> : t \in FrameTimes, c \in FrameChannels \ {1}}
    \cup {<<"timestamp", 1, t, 1, t2, 1>> : t \in {5, 11}, t2 \in FrameTimes}
    \cup {<<"channel", 1, 5, c, 5, c2>> : c \in FrameChannels, c2 \in FrameChannels}
    \cup {<<"size", 1, 5, 1, 5, 1>>}

DecodeSubscribe ==
    /\ Len(subscriptions) < MaxStored
    /\ \E input \in SubscribeInputs :
        Subscribe(input[1], SubscriptionPacket(input[1], input[2], input[3], 1, secret))

DecodeFrame ==
    \E input \in FrameInputs :
        /\ input[1] = "timestamp" => input[5] # input[3]
        /\ input[1] = "channel" => input[6] # input[4]
        /\ Decode(input[1], input[2], input[3], input[4],
                  FramePacket(input[1], input[2], input[3], input[4], input[5],
                              input[6], secret))

DecodeBoot == Boot(secret)

DecodeList == List

NextDecode == DecodeSubscribe \/ DecodeFrame \/ DecodeBoot \/ DecodeList

SpecDecode == InitDecoder /\ [][NextDecode]_vars

\* -------------------------------------------------------------- SpecUart
\* The receive side of one message with a body: the host sends the header,
\* waits for its ACK, then sends the body a byte at a time and waits for an
\* ACK after every CHUNK_SIZE bytes and after the last byte; the handler polls
\* the DMA counter in its wait loops.

\* body_rw.rs:23
CHUNK_SIZE == 256

\* Mutant of should_ack: every header is acknowledged.
should_ack_always(opcode) == TRUE

\* packet.rs  Opcode::should_ack
should_ack(opcode) == opcode \notin {"G", "A"}

\* subscribe.rs:21,24-26,38  the byte counts add_subscription waits for
\* (a body shorter than the header never gets past the first wait; its key
\* count, len - header_size wrapped or trapped at flash.rs:152, is never used)
SubscribeWaits(length, outcome) ==
    IF outcome = "Cannot subscribe to channel 0" \/ length < SubHeaderSize
    THEN <<SubHeaderSize>>
    ELSE <<SubHeaderSize>>
         \o [i \in 1..NumKeysOf(length) |-> SubHeaderSize + i * KEY_SIZE_BYTES]

\* decode.rs:14-16,25,49,52,82  the byte counts decode_frame waits for
DecodeWaits(length, outcome, mask_idx) ==
    IF outcome = "Unexpected frame packet size" THEN <<>>
    ELSE IF outcome = "No subscription for frame" THEN <<FrameHeaderSize>>
    ELSE <<FrameHeaderSize, FrameHeaderSize + (mask_idx + 1) * KEY_SIZE_BYTES>>
         \o (IF outcome = "Ok" THEN <<length>> ELSE <<>>)

\* Mutant of DrainWaits: the error message is written at once.
DrainNone(length, outcome) == <<>>

\* The command loop after a handler returned an error: it waits for the rest
\* of the body before it writes the error message.
DrainWaits(length, outcome) == IF outcome = "Ok" THEN <<>> ELSE <<length>>

\* main.rs:119-141,142-235  the two match statements of the command loop: a
\* header without a body runs LIST or nothing, a header with a body runs a
\* handler or nothing.
Dispatch(opcode, length) ==
    IF length = 0
    THEN (IF opcode = "L" THEN "list" ELSE "none")
    ELSE (IF opcode \in {"S", "D"} THEN "handler" ELSE "none")

\* The wait loops run for a message, in order; main.rs:232-234 runs none for
\* an opcode other than SUBSCRIBE and DECODE.
HandlerWaits(opcode, length, path) ==
    IF Dispatch(opcode, length) # "handler" THEN <<>>
    ELSE IF opcode = "S"
    THEN SubscribeWaits(length, path[1]) \o DrainWaits(length, path[1])
    ELSE IF opcode = "D"
    THEN DecodeWaits(length, path[1], path[2]) \o DrainWaits(length, path[1])
    ELSE <<>>

\* Keys of the subscription packets received.
RxKeys == {1, 12, 13}

\* Bytes appended to them.
RxTrail == {0, 8}

\* Lengths of SUBSCRIBE bodies shorter than the subscription header.
RxShort == {8}

\* packet.rs:7  an opcode is any byte: headers with a body whose opcode is
\* neither SUBSCRIBE nor DECODE, <<opcode, length>>.
RxOther == {<<"L", 8>>, <<"X", 8>>, <<"X", 264>>, <<"A", 8>>, <<"G", 8>>}

\* Opcodes of the headers received without a body.
RxEmpty == {"L", "A", "G", "S", "D", "E", "X"}

SubscribeOutcomes ==
    {"Ok", "Cannot subscribe to channel 0", "Authentication Failed",
     "Flash error: InvalidAddress"}

DecodeOutcomes ==
    {"Ok", "No subscription for frame", "Frame is from the past",
     "Frame validation failed"}

\* The messages received, <<opcode, length, <<outcome, mask_idx>>>>.
RxMessages ==
    {<<"S", SubHeaderSize + n * KEY_SIZE_BYTES + k, <<o, 0>>>> :
        n \in RxKeys, k \in RxTrail, o \in SubscribeOutcomes}
    \cup {<<"D", FramePacketSize, <<o, i>>>> :
            o \in DecodeOutcomes, i \in 0..(NumMasks - 1)}
    \cup {<<"D", FramePacketSize - KEY_SIZE_BYTES, <<"Unexpected frame packet size", 0>>>>}
    \cup {<<"S", n, <<"Ok", 0>>>> : n \in RxShort}
    \cup {<<m[1], m[2], <<"Unknown opcode", 0>>>> : m \in RxOther}
    \cup {<<o, 0, <<(IF o = "L" THEN "Ok" ELSE "Unknown opcode"), 0>>>> : o \in RxEmpty}

InitUart ==
    /\ \E m \in RxMessages :
          /\ rx_opcode = m[1]
          /\ rx_length = m[2]
          /\ rx_path = m[3]
    /\ rx_pc = "read_header"
    /\ rx_wait = 0
    /\ dma_cnt = 0
    /\ dma_read_length = 0
    /\ last_ack_write = 0
    /\ host_pc = "header"
    /\ header_acks = 0
    /\ body_acks = <<>>
    /\ DecoderOff
    /\ TxIdle
    /\ range_a = 0
    /\ range_b = 0
    /\ range_res = <<>>
    /\ range_pc = "idle"
    /\ lookup = NoLookup

\* The host writes the four bytes of the header.
HostHeader ==
    /\ host_pc = "header"
    /\ host_pc' = "header_sent"
    /\ UNCHANGED <<rx_opcode, rx_length, rx_path, rx_pc, rx_wait, dma_cnt,
                   dma_read_length, last_ack_write, header_acks, body_acks,
                   masksVars, decoderVars, txVars>>

\* main.rs:113-117,143-144  read_header, the ACK of the header, start_dma_read
ReadHeader ==
    /\ rx_pc = "read_header"
    /\ host_pc = "header_sent"
    /\ header_acks' = IF should_ack(rx_opcode) THEN header_acks + 1 ELSE header_acks
    /\ dma_read_length' = rx_length
    /\ last_ack_write' = 0
    /\ dma_cnt' = rx_length
    /\ rx_pc' = "handler"
    /\ rx_wait' = 1
    /\ host_pc' = IF rx_length = 0 THEN "sent" ELSE "body"
    /\ UNCHANGED <<rx_opcode, rx_length, rx_path, body_acks, masksVars, decoderVars, txVars>>

\* The host writes the next byte of the body and the DMA channel stores it;
\* at the end of a chunk and of the body the host waits for an ACK.
HostByte ==
    /\ host_pc = "body"
    /\ dma_cnt > 0
    /\ dma_cnt' = dma_cnt - 1
    /\ host_pc' = IF \/ (dma_read_length - dma_cnt') % CHUNK_SIZE = 0
                     \/ dma_cnt' = 0
                  THEN (IF should_ack(rx_opcode) THEN "wait_ack"
                        ELSE IF dma_cnt' = 0 THEN "sent" ELSE "body")
                  ELSE "body"
    /\ UNCHANGED <<rx_opcode, rx_length, rx_path, rx_pc, rx_wait, dma_read_length,
                   last_ack_write, header_acks, body_acks, masksVars, decoderVars, txVars>>

\* body_rw.rs:105-112  one call of dma_poll_for_ack in the current wait loop
Poll ==
    LET waits      == HandlerWaits(rx_opcode, rx_length, rx_path)
        bytes_read == dma_read_length - dma_cnt
        ack        == /\ \/ bytes_read % CHUNK_SIZE = 0
                         \/ bytes_read = dma_read_length
                      /\ bytes_read # last_ack_write
    IN
    /\ rx_pc = "handler"
    /\ rx_wait <= Len(waits)
    /\ last_ack_write' = IF ack THEN bytes_read ELSE last_ack_write
    /\ body_acks' = IF ack THEN Append(body_acks, bytes_read) ELSE body_acks
    /\ host_pc' = IF ack /\ host_pc = "wait_ack"
                  THEN (IF dma_cnt = 0 THEN "sent" ELSE "body")
                  ELSE host_pc
    /\ rx_wait' = IF bytes_read < waits[rx_wait] THEN rx_wait ELSE rx_wait + 1
    /\ UNCHANGED <<rx_opcode, rx_length, rx_path, rx_pc, dma_cnt, dma_read_length,
                   header_acks, masksVars, decoderVars, txVars>>

\* The handler is past its last wait loop, or LIST was dispatched: the
\* response is written.
Respond ==
    /\ rx_pc = "handler"
    /\ Dispatch(rx_opcode, rx_length) # "none"
    /\ rx_wait > Len(HandlerWaits(rx_opcode, rx_length, rx_path))
    /\ rx_pc' = "responded"
    /\ UNCHANGED <<rx_opcode, rx_length, rx_path, rx_wait, dma_cnt, dma_read_length,
                   last_ack_write, host_pc, header_acks, body_acks, masksVars,
                   decoderVars, txVars>>

\* main.rs:138-140,232-234  a header the match statements have no arm for:
\* the arm is empty, so the loop goes back to read_header with nothing polled
\* and nothing written; after a header with a body the receive buffer is
\* dropped while the DMA channel is still armed on it.
Ignore ==
    /\ rx_pc = "handler"
    /\ Dispatch(rx_opcode, rx_length) = "none"
    /\ rx_pc' = "ignored"
    /\ UNCHANGED <<rx_opcode, rx_length, rx_path, rx_wait, dma_cnt, dma_read_length,
                   last_ack_write, host_pc, header_acks, body_acks, masksVars,
                   decoderVars, txVars>>

\* subscribe.rs:24-46, decode.rs:30-62  the wait loops of a handler that are
\* followed by reads of the receive buffer: after the k-th the handler reads
\* bytes below the k-th count (the header fields, then one key slot each).
ReadWaits(opcode, length, path) ==
    IF opcode = "S" THEN SubscribeWaits(length, path[1])
    ELSE IF opcode = "D"
    THEN SubSeq(DecodeWaits(length, path[1], path[2]), 1,
                IF Len(DecodeWaits(length, path[1], path[2])) < 2
                THEN Len(DecodeWaits(length, path[1], path[2])) ELSE 2)
    ELSE <<>>

\* The end of the part of the receive buffer the handler has read so far.  A
\* SUBSCRIBE that is stored copies the whole packet, all `length` bytes, to
\* flash (subscribe.rs:51, flash.rs:112-118) before it writes its response.
ReadExtent ==
    LET reads  == ReadWaits(rx_opcode, rx_length, rx_path)
        passed == IF rx_wait - 1 < Len(reads) THEN rx_wait - 1 ELSE Len(reads)
    IN
    IF rx_pc \notin {"handler", "responded"} THEN 0
    ELSE IF rx_pc = "responded" /\ rx_opcode = "S" /\ rx_path[1] = "Ok" THEN rx_length
    ELSE IF passed = 0 THEN 0
    ELSE reads[passed]

NextUart == HostHeader \/ ReadHeader \/ HostByte \/ Poll \/ Respond \/ Ignore

SpecUart == InitUart /\ [][NextUart]_vars

\* The host and the single-threaded command loop keep running: a step that
\* stays possible is taken.
FairUart ==
    /\ WF_vars(HostHeader)
    /\ WF_vars(ReadHeader)
    /\ WF_vars(HostByte)
    /\ WF_vars(Poll)
    /\ WF_vars(Respond)
    /\ WF_vars(Ignore)

SpecUartLive == SpecUart /\ FairUart

\* ---------------------------------------------------------------- SpecTx
\* The transmit side of one response with a body: the handler writes the
\* header and the body bytes; the host acknowledges the header, every
\* CHUNK_SIZE bytes of body and the last byte of the body.

\* frame.rs:12
FRAME_SIZE == 64

\* Subscriptions listed in the longest LIST response sent.
MaxListed == 13

\* list.rs:12  bytes of the count
ListCountBytes == 4

\* list.rs:17-19  bytes of one entry: u32 channel, u64 start, u64 end
ListEntryBytes == 4 + 8 + 8

\* list.rs:12-23  output.len() for a list of `count` entries
ListLength(count) == ListCountBytes + ListEntryBytes * count

\* The responses sent, <<opcode, length>>: decode.rs:85 and list.rs:23.
TxMessages ==
    {<<"D", FRAME_SIZE>>} \cup {<<"L", ListLength(n)>> : n \in {0, 1, MaxListed}}

\* Bytes in the body of an ACK from a host that sends ACKs with a body.
AckPad == 2

\* The answers of a host where an ACK is due: a zero-length ACK header, an ACK
\* header that carries AckPad body bytes, a header that is not an ACK.
HostKinds == {"ack", "ack_long", "non_ack"}

\* What an answer of this kind puts on the wire: a header
\* <<"hdr", opcode, length>> and the body bytes it announces.
HostReply(kind) ==
    IF kind = "ack" THEN <<(<<"hdr", "A", 0>>)>>
    ELSE IF kind = "ack_long"
    THEN <<(<<"hdr", "A", AckPad>>)>> \o [i \in 1..AckPad |-> <<"byte">>]
    ELSE <<(<<"hdr", "L", 0>>)>>

InitTx ==
    /\ \E m \in TxMessages :
          /\ tx_opcode = m[1]
          /\ tx_length = m[2]
    /\ tx_pc = "header"
    /\ tx_cursor = 0
    /\ tx_acks = 0
    /\ tx_acks_read = 0
    /\ tx_host_pc = "header"
    /\ tx_host_read = 0
    /\ tx_inbox = <<>>
    /\ tx_pad_left = 0
    /\ tx_host_kinds = {}
    /\ DecoderOff
    /\ UartIdle
    /\ range_a = 0
    /\ range_b = 0
    /\ range_res = <<>>
    /\ range_pc = "idle"
    /\ lookup = NoLookup

\* decode.rs:85, list.rs:23,26  write_header, then a BodyRW with cursor 0
TxWriteHeader ==
    /\ tx_pc = "header"
    /\ tx_pc' = "body"
    /\ UNCHANGED <<tx_opcode, tx_length, tx_cursor, tx_acks, tx_acks_read, tx_host_pc,
                   tx_host_read, tx_inbox, tx_pad_left, tx_host_kinds, masksVars,
                   decoderVars, uartVars>>

\* body_rw.rs:118-126  write_bytes: one byte, then wait_for_ack at a chunk end
TxWriteByte ==
    /\ tx_pc = "body"
    /\ tx_cursor < tx_length
    /\ tx_cursor' = tx_cursor + 1
    /\ tx_pc' = IF tx_cursor' % CHUNK_SIZE = 0 THEN "wait_chunk" ELSE "body"
    /\ UNCHANGED <<tx_opcode, tx_length, tx_acks, tx_acks_read, tx_host_pc,
                   tx_host_read, tx_inbox, tx_pad_left, tx_host_kinds, masksVars,
                   decoderVars, uartVars>>

\* list.rs:28 with body_rw.rs:208-213  finish_write after the last byte of a
\* LIST response; decode.rs:86-88 returns after write_bytes
TxFinish ==
    /\ tx_pc = "body"
    /\ tx_cursor = tx_length
    /\ tx_pc' = IF /\ tx_opcode = "L"
                   /\ should_ack("L")
                   /\ tx_cursor % CHUNK_SIZE # 0
                THEN "wait_finish" ELSE "done"
    /\ UNCHANGED <<tx_opcode, tx_length, tx_cursor, tx_acks, tx_acks_read, tx_host_pc,
                   tx_host_read, tx_inbox, tx_pad_left, tx_host_kinds, masksVars,
                   decoderVars, uartVars>>

\* Where the sending handler goes on when wait_for_ack returns.
AfterWait(pc) == IF pc \in {"wait_chunk", "pad_chunk"} THEN "body" ELSE "done"

\* Mutant of wait_for_ack's opcode test: any header counts as the ACK.
AfterHeaderAnyOpcode(pc, opcode, length) ==
    IF length # 0
    THEN (IF pc = "wait_chunk" THEN "pad_chunk" ELSE "pad_finish")
    ELSE AfterWait(pc)

\* raw_rw.rs:62-66 with main.rs:30  what wait_for_ack does with the header it
\* read: a panic, which panic_halt turns into a halt, unless the opcode is ACK;
\* raw_rw.rs:69-73  then the loop over the header's length, if it is not 0
AfterHeader(pc, opcode, length) ==
    IF opcode # "A" THEN "halted"
    ELSE IF length # 0
    THEN (IF pc = "wait_chunk" THEN "pad_chunk" ELSE "pad_finish")
    ELSE AfterWait(pc)

\* raw_rw.rs:61-75  wait_for_ack, up to its loop: read_header (raw_rw.rs:78-93)
\* drops bytes until the magic byte of a header, then takes the header
TxWaitForAck ==
    /\ tx_pc \in {"wait_chunk", "wait_finish"}
    /\ tx_inbox # <<>>
    /\ tx_inbox' = Tail(tx_inbox)
    /\ LET item == Head(tx_inbox) IN
       IF item[1] = "byte"
       THEN UNCHANGED <<tx_pc, tx_acks, tx_acks_read, tx_pad_left>>
       ELSE /\ tx_pc' = AfterHeader(tx_pc, item[2], item[3])
            /\ tx_pad_left' = IF item[2] = "A" THEN item[3] ELSE tx_pad_left
            /\ tx_acks' = IF item[2] = "A" THEN tx_acks - 1 ELSE tx_acks
            /\ tx_acks_read' = IF item[2] = "A" THEN tx_acks_read + 1
                                ELSE tx_acks_read
    /\ UNCHANGED <<tx_opcode, tx_length, tx_cursor, tx_host_pc, tx_host_read,
                   tx_host_kinds, masksVars, decoderVars, uartVars>>

\* raw_rw.rs:69-73  one pass of the loop: read one byte and drop it;
\* wait_for_ack returns after the pass that was the header's last
TxReadPad ==
    /\ tx_pc \in {"pad_chunk", "pad_finish"}
    /\ tx_pad_left > 0
    /\ tx_inbox # <<>>
    /\ tx_inbox' = Tail(tx_inbox)
    /\ tx_pad_left' = tx_pad_left - 1
    /\ tx_pc' = IF tx_pad_left' = 0 THEN AfterWait(tx_pc) ELSE tx_pc
    /\ UNCHANGED <<tx_opcode, tx_length, tx_cursor, tx_acks, tx_acks_read, tx_host_pc,
                   tx_host_read, tx_host_kinds, masksVars, decoderVars, uartVars>>

\* The host reads the header of the response and acknowledges it.
TxHostHeader ==
    /\ tx_host_pc = "header"
    /\ tx_pc # "header"
    /\ IF should_ack(tx_opcode)
       THEN \E kind \in HostKinds :
               /\ tx_acks' = IF kind # "non_ack" THEN tx_acks + 1 ELSE tx_acks
               /\ tx_inbox' = tx_inbox \o HostReply(kind)
               /\ tx_host_kinds' = tx_host_kinds \cup {kind}
       ELSE UNCHANGED <<tx_acks, tx_inbox, tx_host_kinds>>
    /\ tx_host_pc' = "body"
    /\ UNCHANGED <<tx_opcode, tx_length, tx_pc, tx_cursor, tx_acks_read, tx_host_read,
                   tx_pad_left, masksVars, decoderVars, uartVars>>

\* The host reads the next body byte and acknowledges the end of a chunk and
\* of the body.
TxHostByte ==
    /\ tx_host_pc = "body"
    /\ tx_host_read < tx_cursor
    /\ tx_host_read' = tx_host_read + 1
    /\ IF /\ should_ack(tx_opcode)
          /\ \/ tx_host_read' % CHUNK_SIZE = 0
             \/ tx_host_read' = tx_length
       THEN \E kind \in HostKinds :
               /\ tx_acks' = IF kind # "non_ack" THEN tx_acks + 1 ELSE tx_acks
               /\ tx_inbox' = tx_inbox \o HostReply(kind)
               /\ tx_host_kinds' = tx_host_kinds \cup {kind}
       ELSE UNCHANGED <<tx_acks, tx_inbox, tx_host_kinds>>
    /\ tx_host_pc' = IF tx_host_read' = tx_length THEN "done" ELSE "body"
    /\ UNCHANGED <<tx_opcode, tx_length, tx_pc, tx_cursor, tx_acks_read, tx_pad_left,
                   masksVars, decoderVars, uartVars>>

NextTx ==
    \/ TxWriteHeader
    \/ TxWriteByte
    \/ TxFinish
    \/ TxWaitForAck
    \/ TxReadPad
    \/ TxHostHeader
    \/ TxHostByte

SpecTx == InitTx /\ [][NextTx]_vars

\* ---------------------------------------------------------------- claims

\* Stored subscription i is the packet the headend generates for this decoder
\* and the range and channel of its header, as the handler stores it.
HeadendStored(i) ==
    LET sub    == subscriptions[i]
        header == StoredHeader(flash, sub)
        packet == generate(secret, header.start_timestamp, header.end_timestamp,
                           header.channel, DECODER_ID)
    IN  /\ sub.len = WordBytes * Len(packet)
        /\ BodyWords(flash, sub.addr, sub.len) = DecryptKeys(packet, sub.len, secret)

\* Some stored subscription has the channel of the packet and a range that
\* holds its timestamp.
Covered(packet) ==
    \E i \in 1..Len(subscriptions) :
        contains_frame(StoredHeader(flash, subscriptions[i]), packet)

\* C1: round trip.  When a headend subscription for this decoder on channel
\* c # 0 with start <= t <= end is stored and T* is None or below t, DECODE of
\* encode(frame, t, c) answers with exactly the original frame.
C1_RoundTrip ==
    [][(/\ cmd'.op = "decode"
        /\ cmd'.tamper = "none"
        /\ cmd'.channel # 0
        /\ most_recent_timestamp = None \/ most_recent_timestamp < cmd'.timestamp
        /\ \E i \in 1..Len(subscriptions) :
              /\ HeadendStored(i)
              /\ StoredHeader(flash, subscriptions[i]).channel = cmd'.channel
              /\ StoredHeader(flash, subscriptions[i]).start_timestamp <= cmd'.timestamp
              /\ cmd'.timestamp <= StoredHeader(flash, subscriptions[i]).end_timestamp)
       => (/\ response'.opcode = "D"
           /\ response'.frame = FrameOf(cmd'.frame))]_vars

\* C1 witness: a frame at the last timestamp of a headend subscription that is
\* stored behind a forged one is decoded after an earlier frame.
C1_Witness ==
    /\ cmd.op = "decode"
    /\ cmd.tamper = "none"
    /\ cmd.timestamp = 11
    /\ cmd.frame = 2
    /\ response.opcode = "D"
    /\ response.frame = FrameOf(2)
    /\ Len(subscriptions) = 2
    /\ ~HeadendStored(1)
    /\ HeadendStored(2)

\* C3: T* never decreases from command to command, and once a DECODE has
\* succeeded at t every later DECODE whose packet timestamp is at most t is
\* answered with an error, emits no frame and leaves T* alone.
C3_Monotonic ==
    [][/\ cmd'.op # "boot" => most_recent_timestamp' >= most_recent_timestamp
       /\ (/\ cmd'.op = "decode"
           /\ decoded_max # None
           /\ cmd'.packet.timestamp <= decoded_max)
          => (/\ response'.opcode = "E"
              /\ response'.frame = NoFrame
              /\ most_recent_timestamp' = most_recent_timestamp)]_vars

\* C3 witness: a frame the headend encoded for a covered timestamp is refused
\* because a later frame was decoded before it.
C3_Witness ==
    /\ cmd.op = "decode"
    /\ cmd.tamper = "none"
    /\ cmd.channel = 1
    /\ Covered(cmd.packet)
    /\ cmd.packet.timestamp < decoded_max
    /\ most_recent_timestamp = decoded_max
    /\ response.opcode = "E"
    /\ response.text = "Frame is from the past"

\* C4 as stated: a packet whose timestamp field was replaced after encoding
\* is never decoded: no frame is emitted for it (and so T* is not advanced).
C4_TimestampTamperFails ==
    (cmd.op = "decode" /\ cmd.tamper = "timestamp")
        => (response.opcode = "E" /\ response.frame = NoFrame)

\* C5 as stated: every SUBSCRIBE body whose recomputed MAC differs from the
\* packet MAC is answered "Authentication Failed" and changes nothing.
C5_TamperRefusedAnyChannel ==
    [][(/\ cmd'.op = "subscribe"
        /\ ComputedMac(cmd'.words, cmd'.len, secret) # HeaderOf(cmd'.words).mac_hash)
       => (/\ response'.opcode = "E"
           /\ response'.text = "Authentication Failed"
           /\ UNCHANGED <<flash, subscriptions, next_entry_addr>>)]_vars

\* C5 (amended): a SUBSCRIBE body for a channel other than 0 whose recomputed
\* MAC differs from the packet MAC is answered "Authentication Failed", and
\* the flash, next_entry_addr and the index are unchanged.
C5_TamperRefused ==
    [][(/\ cmd'.op = "subscribe"
        /\ HeaderOf(cmd'.words).channel # 0
        /\ ComputedMac(cmd'.words, cmd'.len, secret) # HeaderOf(cmd'.words).mac_hash)
       => (/\ response'.opcode = "E"
           /\ response'.text = "Authentication Failed"
           /\ UNCHANGED <<flash, subscriptions, next_entry_addr>>)]_vars

\* C5 witness: a packet with a flipped wrapped key is refused by a decoder
\* that holds subscriptions.
C5_Witness ==
    /\ cmd.op = "subscribe"
    /\ cmd.variant = "key"
    /\ HeaderOf(cmd.words).channel # 0
    /\ ComputedMac(cmd.words, cmd.len, secret) # HeaderOf(cmd.words).mac_hash
    /\ response.text = "Authentication Failed"
    /\ Len(subscriptions) = 2

\* C6 as stated: for a frame the headend encoded on a channel other than 0 the
\* lookup yields a key exactly when some stored subscription has the channel
\* and holds the timestamp; without a key the answer is "No subscription for
\* frame".
C6_KeyIffCovered ==
    (cmd.op = "decode" /\ cmd.tamper = "none" /\ cmd.channel # 0)
        => /\ (LookupKey(flash, subscriptions, cmd.packet, secret) # NoKey)
                <=> Covered(cmd.packet)
           /\ (response.text = "No subscription for frame") <=> ~Covered(cmd.packet)

\* C8: a boot that finds another word than FLASH_MAGIC at the start of the
\* region leaves the pages erased but for the magic at the start address and
\* the index empty, and a LIST that follows reports count 0.
C8_Rotation ==
    [][/\ (cmd'.op = "boot" /\ read_32(flash, START_ADDR) # FLASH_MAGIC(secret'))
          => (/\ flash' = [w \in DOMAIN flash |->
                              IF w = WordIndex(START_ADDR)
                              THEN U32(FLASH_MAGIC(secret')) ELSE ERASED]
              /\ subscriptions' = <<>>
              /\ init_result' = "Ok")
       /\ (cmd.op = "boot" /\ cmd.rotated /\ cmd'.op = "list")
          => (response'.opcode = "L" /\ response'.list = <<0>>)]_vars

\* C8 witness: the image of the other deployment boots on a flash that held
\* two subscriptions.
C8_Witness ==
    /\ cmd.op = "boot"
    /\ cmd.rotated
    /\ cmd.stored = 2
    /\ subscriptions = <<>>
    /\ init_result = "Ok"

\* C9 as stated: a boot with the same FLASH_MAGIC, after successful
\* add_subscription calls, succeeds and finds the index and next_entry_addr
\* it had before.
C9_Persistence ==
    [][(cmd'.op = "boot" /\ ~cmd'.rotated /\ init_result = "Ok")
       => (/\ init_result' = "Ok"
           /\ subscriptions' = subscriptions
           /\ next_entry_addr' = next_entry_addr)]_vars

\* The byte counts at which the body of length bytes is to be ACKed: every
\* multiple of CHUNK_SIZE below the length, then the length.
ExpectedAcks(length) ==
    [i \in 1..((length + CHUNK_SIZE - 1) \div CHUNK_SIZE) |->
        IF i * CHUNK_SIZE < length THEN i * CHUNK_SIZE ELSE length]

\* C10 as stated: for a message with a body the decoder sends one ACK for the
\* header, its body ACKs are in order those of the multiples of 256 and of
\* the length (none at 0, none twice), and by the time it responds it has
\* sent all ceil(L/256) of them.
C10_ReceiveAcks ==
    /\ header_acks = (IF /\ rx_pc \in {"handler", "responded", "ignored"}
                         /\ should_ack(rx_opcode)
                      THEN 1 ELSE 0)
    /\ Len(body_acks) <= Len(ExpectedAcks(rx_length))
    /\ body_acks = SubSeq(ExpectedAcks(rx_length), 1, Len(body_acks))
    /\ rx_pc = "responded" => body_acks = ExpectedAcks(rx_length)


\* C11 as stated: no body byte of a DECODE or LIST response is written before
\* the host has acknowledged the header of the response (read here in the
\* weakest way: the host has at least sent that ACK).
C11_HeaderAckBeforeBody ==
    (tx_cursor > 0 /\ "non_ack" \notin tx_host_kinds)
        => tx_acks + tx_acks_read >= 1


\* C12: channel 0 is always covered.  For every timestamp the lookup of a
\* channel-0 frame finds a key; for a channel-0 DECODE the key is the one found
\* with an erased flash and an empty index, so it comes from CHANNEL_0_KEYS and
\* not from the stored subscriptions, and the answer is never "No subscription
\* for frame".
C12_Channel0Covered ==
    /\ \A t \in Timestamps :
          LookupKey(flash, subscriptions, [timestamp |-> t, channel |-> 0], secret)
              # NoKey
    /\ (cmd.op = "decode" /\ cmd.packet.channel = 0)
          => /\ LookupKey(flash, subscriptions, cmd.packet, secret) # NoKey
             /\ LookupKey(flash, subscriptions, cmd.packet, secret)
                    = LookupKey([w \in DOMAIN flash |-> ERASED], <<>>, cmd.packet,
                                secret)
             /\ response.text # "No subscription for frame"

\* C12 witness: a channel-0 frame is decoded by a decoder that holds two
\* subscriptions, neither for channel 0.
C12_Witness ==
    /\ cmd.op = "decode"
    /\ cmd.tamper = "none"
    /\ cmd.packet.channel = 0
    /\ cmd.packet.timestamp = 12
    /\ Len(subscriptions) = 2
    /\ response.opcode = "D"
    /\ response.frame = FrameOf(cmd.frame)


\* C13: a SUBSCRIBE whose header has channel 0 is answered with the error
\* "Cannot subscribe to channel 0" and writes nothing, and after every step
\* no stored subscription and no LIST entry has channel 0.
C13_Channel0Refused ==
    [][/\ (cmd'.op = "subscribe" /\ HeaderOf(cmd'.words).channel = 0)
          => (/\ response' = ErrorResponse("Cannot subscribe to channel 0")
              /\ UNCHANGED <<flash, subscriptions, next_entry_addr>>)
       /\ \A i \in 1..Len(subscriptions') :
             /\ StoredHeader(flash', subscriptions'[i]).channel # 0
             /\ list_subscriptions(flash', subscriptions').list[i + 1][1] # 0]_vars

\* C13 witness: the headend's own packet for channel 0, with a valid MAC, is
\* refused by a decoder that holds two subscriptions.
C13_Witness ==
    /\ cmd.op = "subscribe"
    /\ cmd.variant = "none"
    /\ HeaderOf(cmd.words).channel = 0
    /\ MacMatches(cmd.words, cmd.len, secret)
    /\ response.text = "Cannot subscribe to channel 0"
    /\ Len(subscriptions) = 2


\* C14 as stated: with a cooperative host every SUBSCRIBE and DECODE request,
\* of every body length, is eventually answered with a response.
C14_EveryRequestAnswered ==
    (rx_opcode \in {"S", "D"} /\ rx_length > 0) => <>(rx_pc = "responded")

FullyVerified(fl, subs, mrt, packet, s) ==
    LET key == LookupKey(fl, subs, packet, s) IN
    /\ packet.len = FramePacketSize
    /\ key # NoKey
    /\ ~IsFromPast(mrt, packet.timestamp)
    /\ Verify(s, Decrypt(Decrypt(key[1], packet.keys[key[2]]), packet.frame),
              packet.signature)

\* C16: T* is written only by a fully verified decode.  A command that changes
\* T* is a DECODE that passed the size check, found a key, passed the replay
\* check and the signature verification, and T* is then the timestamp of its
\* packet; a DECODE answered with an error, a SUBSCRIBE and a LIST leave T*
\* as it was.
C16_OnlyVerifiedDecode ==
    [][cmd'.op # "boot" =>
        /\ (most_recent_timestamp' # most_recent_timestamp)
              => /\ cmd'.op = "decode"
                 /\ FullyVerified(flash, subscriptions, most_recent_timestamp,
                                  cmd'.packet, secret)
                 /\ most_recent_timestamp' = cmd'.packet.timestamp
                 /\ response'.opcode = "D"
        /\ (cmd'.op \in {"subscribe", "list"} \/ response'.opcode = "E")
              => most_recent_timestamp' = most_recent_timestamp]_vars

\* C16 witness: a frame of a covered timestamp is decoded and T* is the
\* timestamp of its packet.
C16_Witness ==
    /\ cmd.op = "decode"
    /\ cmd.tamper = "none"
    /\ cmd.packet.channel = 1
    /\ cmd.packet.timestamp = 11
    /\ decoded_max = 11
    /\ response.opcode = "D"
    /\ most_recent_timestamp = cmd.packet.timestamp


\* The (channel, start, end) of the stored subscriptions, in index order.
StoredTriples(fl, subs) ==
    [i \in 1..Len(subs) |->
        <<StoredHeader(fl, subs[i]).channel, StoredHeader(fl, subs[i]).start_timestamp,
          StoredHeader(fl, subs[i]).end_timestamp>>]

\* C17: LIST answers L with the count of stored subscriptions followed by one
\* (channel, start, end) per stored subscription, 4 + 20 * count bytes, and
\* changes neither the store nor T*; the order is that of insertion, as every
\* stored SUBSCRIBE appends the triple of its header behind the others.
C17_ListContent ==
    [][/\ cmd'.op = "list"
          => /\ response'.opcode = "L"
             /\ response'.list = <<Len(subscriptions)>>
                                     \o StoredTriples(flash, subscriptions)
             /\ ListLength(Len(response'.list) - 1) = 4 + 20 * Len(subscriptions)
             /\ UNCHANGED <<flash, subscriptions, next_entry_addr,
                            most_recent_timestamp>>
       /\ (cmd'.op = "subscribe" /\ response'.opcode = "S")
          => StoredTriples(flash', subscriptions')
                = Append(StoredTriples(flash, subscriptions),
                         <<HeaderOf(cmd'.words).channel,
                           HeaderOf(cmd'.words).start_timestamp,
                           HeaderOf(cmd'.words).end_timestamp>>)]_vars

\* C17 witness: LIST on a decoder that holds two subscriptions with different
\* ranges and has decoded a frame.
C17_Witness ==
    /\ cmd.op = "list"
    /\ response.opcode = "L"
    /\ response.list = <<2, <<1, 10, 13>>, <<1, 4, 11>>>>
    /\ most_recent_timestamp # None


\* C18 as stated: a subscription packet the headend generated for another
\* device id is answered "Authentication Failed" and is not stored.
C18_DeviceBinding ==
    [][(cmd'.op = "subscribe" /\ cmd'.variant = "device")
          => (/\ response'.text = "Authentication Failed"
              /\ UNCHANGED <<flash, subscriptions, next_entry_addr>>)]_vars


\* C19: a packet whose channel field was replaced after encoding is never
\* decoded, whichever subscriptions are stored: the answer is an error and no
\* frame is emitted.
C19_ChannelTamperFails ==
    (cmd.op = "decode" /\ cmd.tamper = "channel")
        => (response.opcode = "E" /\ response.frame = NoFrame)

\* C19 witness: a frame encoded for channel 2 is sent with channel 1 in its
\* header to a decoder whose subscription for channel 1 holds the timestamp;
\* the key is found and the signature check refuses the frame.
C19_Witness ==
    /\ cmd.op = "decode"
    /\ cmd.tamper = "channel"
    /\ cmd.channel = 2
    /\ cmd.packet.channel = 1
    /\ Covered(cmd.packet)
    /\ LookupKey(flash, subscriptions, cmd.packet, secret) # NoKey
    /\ response.text = "Frame validation failed"

\* C20: a DECODE whose body length differs from the size of an encoded frame
\* packet is answered "Unexpected frame packet size", emits no frame and
\* leaves T* as it was.
C20_SizeMismatch ==
    [][(cmd'.op = "decode" /\ cmd'.packet.len # FramePacketSize)
          => (/\ response' = ErrorResponse("Unexpected frame packet size")
              /\ most_recent_timestamp' = most_recent_timestamp)]_vars

\* C20 witness: the refused body is otherwise the headend's packet for a
\* timestamp the decoder is subscribed to and that lies behind T*.
C20_Witness ==
    /\ cmd.op = "decode"
    /\ cmd.tamper = "size"
    /\ cmd.packet.len # FramePacketSize
    /\ Covered(cmd.packet)
    /\ LookupKey(flash, subscriptions, cmd.packet, secret) # NoKey
    /\ most_recent_timestamp # None
    /\ most_recent_timestamp < cmd.packet.timestamp
    /\ response.text = "Unexpected frame packet size"

\* C21: a message with a body whose opcode is neither SUBSCRIBE nor DECODE is
\* answered with an error message, written once the whole body has been
\* received, before the decoder waits for the next header.
C21_UnknownOpcodeError ==
    (rx_opcode \notin {"S", "D"} /\ rx_length > 0 /\ rx_pc \in {"responded", "ignored"})
        => (rx_pc = "responded" /\ rx_path[1] # "Ok" /\ dma_cnt = 0)

\* A packet of the right size for which a key is found and whose signature
\* does not verify over the frame decrypted with that key.
SignatureFails(fl, subs, packet, s) ==
    LET key == LookupKey(fl, subs, packet, s) IN
    /\ packet.len = FramePacketSize
    /\ key # NoKey
    /\ ~Verify(s, Decrypt(Decrypt(key[1], packet.keys[key[2]]), packet.frame),
               packet.signature)

\* C22 as stated: a DECODE packet that fails signature verification and has
\* t <= T* is answered with "Frame validation failed".
C22_SignatureBeforeReplay ==
    [][(/\ cmd'.op = "decode"
        /\ SignatureFails(flash, subscriptions, cmd'.packet, secret)
        /\ IsFromPast(most_recent_timestamp, cmd'.packet.timestamp))
          => response'.text = "Frame validation failed"]_vars

\* C22 amended: the replay check is evaluated before the signature
\* verification.  A DECODE packet that fails signature verification and has
\* t <= T* is answered with "Frame is from the past"; one that fails
\* signature verification with no T* or t > T* is answered with "Frame
\* validation failed"; T* is unchanged by both.
C22_ReplayBeforeSignature ==
    [][(/\ cmd'.op = "decode"
        /\ SignatureFails(flash, subscriptions, cmd'.packet, secret))
          => /\ response'.opcode = "E"
             /\ response'.text =
                  (IF IsFromPast(most_recent_timestamp, cmd'.packet.timestamp)
                   THEN "Frame is from the past" ELSE "Frame validation failed")
             /\ most_recent_timestamp' = most_recent_timestamp]_vars

\* C22 witness: a packet whose signature does not verify and whose timestamp
\* is not above T* has been answered with the replay error.
C22_Witness ==
    /\ cmd.op = "decode"
    /\ cmd.tamper = "timestamp"
    /\ SignatureFails(flash, subscriptions, cmd.packet, secret)
    /\ IsFromPast(most_recent_timestamp, cmd.packet.timestamp)
    /\ response.text = "Frame is from the past"

\* C23: the handler reads a byte of the receive buffer only after the DMA
\* channel has delivered it: at every moment the part of the buffer read so
\* far, header fields, key slots and the copy to flash, lies within the bytes
\* delivered.
C23_DmaPrefixSafety == ReadExtent <= dma_read_length - dma_cnt

\* The body bytes of the response the host has acknowledged: the whole chunks
\* it has read, and the whole body once it has read the last byte.
TxAckedBytes ==
    IF tx_host_read = tx_length THEN tx_length
    ELSE (tx_host_read \div CHUNK_SIZE) * CHUNK_SIZE

\* C24: while a response body is transmitted the decoder has at most
\* CHUNK_SIZE body bytes written that the host has not acknowledged, so byte
\* 256 * k + 1 is written only after the host's ACK for chunk k (read here in
\* the weakest way: the host has at least sent that ACK).
C24_TransmitPacing ==
    "non_ack" \notin tx_host_kinds => tx_cursor - TxAckedBytes <= CHUNK_SIZE

\* C25: when the S or D header of a successful SUBSCRIBE or DECODE is written,
\* every byte of the request body has been delivered and the ACK of the end
\* of the body has been sent.
C25_NoPipelining ==
    (rx_pc = "responded" /\ rx_opcode \in {"S", "D"} /\ rx_path[1] = "Ok")
        => /\ dma_cnt = 0
           /\ body_acks # <<>>
           /\ body_acks[Len(body_acks)] = rx_length

\* The pair key_for_frame selects for the frame packet the headend encodes at
\* timestamp t on a channel, from the keys of the subscription [start, end]
\* on that channel.
SelectedFor(start, end, t, channel, s, keys) ==
    key_for_frame([start_timestamp |-> start, end_timestamp |-> end, channel |-> channel],
                  encode(FrameOf(1), t, channel, s), keys)

\* C26: for every subscription [start, end] and every t in it, key_for_frame
\* selects a key and a level mask_idx such that the block of that position in
\* characterize_range(start, end) starts at t & ~((1 << MASKS[mask_idx]) - 1);
\* the key of that position is the bit-range key under which the encoder
\* wrapped the frame key in slot mask_idx, so unwrapping that slot with it
\* gives the frame key.
C26_KeyAgreement ==
    (range_pc = "done" /\ range_a <= range_b) =>
        \E keys \in {RangeKeys(range_a, range_b, 1, 1)} :
        \A t \in range_a..range_b :
            \E sel \in {SelectedFor(range_a, range_b, t, 1, 1, keys)} :
                /\ sel # NoKey
                /\ \E i \in 1..Len(range_res) :
                      /\ range_res[i] = <<AndNotSpan(t, MASKS[sel[2]]), sel[2]>>
                      /\ keys[i] = sel[1]
                /\ sel[1] = KeyForBitrange(AndNotSpan(t, MASKS[sel[2]]), sel[2], 1, 1)
                /\ Decrypt(sel[1], encode(FrameOf(1), t, 1, 1).keys[sel[2]])
                      = KeyForFrame(t, 1, 1)

\* C26 witness: a subscription of several blocks in which a timestamp of a
\* block that is neither the first nor of the lowest level selects the key of
\* that block.
C26_Witness ==
    /\ range_pc = "done"
    /\ range_a = 3
    /\ range_b = 47
    /\ SelectedFor(range_a, range_b, 21, 1, 1, RangeKeys(range_a, range_b, 1, 1))
          = <<KeyForBitrange(16, 2, 1, 1), 2>>
    /\ range_res[5] = <<16, 2>>

\* The last timestamp of a block.
BlockEnd(block) == OrSpan(block[1], MASKS[block[2]])

\* C27: for a <= b every block (t, idx) of characterize_range(a, b) starts at
\* a multiple of 2^MASKS[idx] and is as wide as can be: no level j > idx has
\* t aligned to 2^MASKS[j] with t | (2^MASKS[j] - 1) <= b.  The blocks are in
\* increasing order: the first starts at a, every other starts right after
\* the one before it ends, and the last ends at b.
C27_GreedyAligned ==
    (range_pc = "done" /\ range_a <= range_b) =>
        /\ range_res # <<>>
        /\ range_res[1][1] = range_a
        /\ BlockEnd(range_res[Len(range_res)]) = range_b
        /\ \A i \in 1..Len(range_res) :
              /\ range_res[i][2] \in 0..(NumMasks - 1)
              /\ AndSpan(range_res[i][1], MASKS[range_res[i][2]]) = 0
              /\ \A j \in (range_res[i][2] + 1)..(NumMasks - 1) :
                    ~(/\ AndSpan(range_res[i][1], MASKS[j]) = 0
                      /\ OrSpan(range_res[i][1], MASKS[j]) <= range_b)
              /\ i > 1 => range_res[i][1] = BlockEnd(range_res[i - 1]) + 1

\* C27 witness: a decomposition that climbs to a block of the top level and
\* comes down again, with a first block of the lowest level at an odd start.
C27_Witness ==
    /\ range_pc = "done"
    /\ range_a = 3
    /\ range_b = 47
    /\ Len(range_res) > 5
    /\ range_res[1] = <<3, 0>>
    /\ range_res[5] = <<16, NumMasks - 1>>
    /\ BlockEnd(range_res[Len(range_res)]) = 47

\* C28: for every a <= b, b = u64::MAX included, characterize_range returns:
\* when the cursor would move past a block that ends at u64::MAX the call
\* ends without an arithmetic fault with the blocks emitted so far, the last
\* of which ends at b.
C28_WrapReturns ==
    (range_pc # "call" /\ range_a <= range_b) =>
        /\ range_pc = "done"
        /\ range_res # <<>>
        /\ BlockEnd(range_res[Len(range_res)]) = range_b

\* The bytes of a record of the index: its length word and its body.
RecordBytes(sub) == (sub.addr - WordBytes)..(sub.addr + sub.len - 1)

\* C29: after init and after any sequence of add_subscription calls,
\* next_entry_addr is 12 modulo 16 and is the address of a word of the store
\* that is still erased; the length word of every record is the word right
\* before its 16-byte-aligned body; every record lies, length word and body,
\* in the four pages behind the magic word; no two records overlap.
C29_LogLayout ==
    init_result = "Ok" =>
        /\ next_entry_addr % ALIGNMENT = ALIGNMENT - WordBytes
        /\ next_entry_addr + WordBytes <= END_ADDR
        /\ flash[WordIndex(next_entry_addr)] = ERASED
        /\ \A i \in 1..Len(subscriptions) :
              /\ subscriptions[i].addr % ALIGNMENT = 0
              /\ flash[WordIndex(subscriptions[i].addr - WordBytes)]
                    = <<"u32", subscriptions[i].len>>
              /\ START_ADDR + WordBytes <= subscriptions[i].addr - WordBytes
              /\ subscriptions[i].addr + subscriptions[i].len <= END_ADDR
        /\ \A i, j \in 1..Len(subscriptions) :
              i # j => RecordBytes(subscriptions[i]) \cap RecordBytes(subscriptions[j]) = {}

\* A frame packet of the headend for the channel and the ranges of the store.
ProbeFrames(s) == {encode(FrameOf(1), 7, 1, s)}

\* C30: a SUBSCRIBE whose record would end behind the flash region,
\* next_entry_addr + 4 + len beyond its end, is answered with an error
\* message and leaves every flash word, next_entry_addr and the index as
\* they were, so that LIST and DECODE give the answers they gave before; a
\* packet that passed the channel and MAC checks is answered with the flash
\* error.
C30_StoreFull ==
    [][(/\ cmd'.op = "subscribe"
        /\ next_entry_addr + 4 + cmd'.len > END_ADDR)
          => /\ response'.opcode = "E"
             /\ (cmd'.variant \in {"none", "trail"} /\ HeaderOf(cmd'.words).channel # 0)
                   => response'.text = "Flash error: InvalidAddress"
             /\ flash' = flash
             /\ next_entry_addr' = next_entry_addr
             /\ subscriptions' = subscriptions
             /\ list_subscriptions(flash', subscriptions')
                   = list_subscriptions(flash, subscriptions)
             /\ \A p \in ProbeFrames(secret) :
                   decode_frame(flash', subscriptions', most_recent_timestamp', p, secret)
                     = decode_frame(flash, subscriptions, most_recent_timestamp, p,
                                    secret)]_vars

\* C30 witness: the headend's packet for this decoder has been refused with
\* the flash error by a store that holds records and has no room for it.
C30_Witness ==
    /\ cmd.op = "subscribe"
    /\ cmd.variant = "none"
    /\ Len(subscriptions) >= 2
    /\ next_entry_addr + 4 + cmd.len > END_ADDR
    /\ response.opcode = "E"
    /\ response.text = "Flash error: InvalidAddress"

\* The record of an index entry as the flash holds it: its length word and
\* the words of its body.
RecordWords(fl, sub) ==
    <<fl[WordIndex(sub.addr - WordBytes)]>> \o BodyWords(fl, sub.addr, sub.len)

\* C31: the store is append-only.  A SUBSCRIBE answered with S adds exactly
\* one entry behind the last entry of the index, at the end of the flash log
\* (its length word at the former next_entry_addr, its body the packet as
\* authenticated); a SUBSCRIBE answered with an error and a LIST add none.
\* Every command leaves the address, the length and the flash words of every
\* earlier record as they were, also a SUBSCRIBE for a channel that is
\* already stored.
C31_AppendOnly ==
    [][cmd'.op \in {"subscribe", "list"} =>
        /\ \A i \in 1..Len(subscriptions) :
              /\ i <= Len(subscriptions')
              /\ subscriptions'[i] = subscriptions[i]
              /\ RecordWords(flash', subscriptions[i]) = RecordWords(flash, subscriptions[i])
        /\ (cmd'.op = "subscribe" /\ response'.opcode = "S")
              => /\ subscriptions'
                      = Append(subscriptions,
                               access_subscription(next_entry_addr + WordBytes, cmd'.len))
                 /\ RecordWords(flash', subscriptions'[Len(subscriptions')])
                      = <<U32(cmd'.len)>> \o DecryptKeys(cmd'.words, cmd'.len, secret)
                 /\ next_entry_addr' > next_entry_addr + cmd'.len
        /\ (cmd'.op = "list" \/ response'.opcode = "E")
              => subscriptions' = subscriptions]_vars

\* C31 witness: a second subscription for the channel and the range of the
\* first has been stored behind it.
C31_Witness ==
    /\ cmd.op = "subscribe"
    /\ response.opcode = "S"
    /\ Len(subscriptions) = 2
    /\ StoredHeader(flash, subscriptions[1]) = StoredHeader(flash, subscriptions[2])
    /\ subscriptions[1].addr < subscriptions[2].addr

\* The key the i-th stored subscription yields for a frame packet.
KeyOfStored(fl, subs, packet, i) ==
    key_for_frame(StoredHeader(fl, subs[i]), packet, StoredKeys(fl, subs[i]))

\* The stored subscriptions that yield a key for a frame packet.
Yielding(fl, subs, packet) ==
    {i \in 1..Len(subs) : KeyOfStored(fl, subs, packet, i) # NoKey}

\* C32: for a DECODE on a channel other than 0 the key used is that of the
\* earliest-inserted stored subscription for which key_for_frame returns a
\* key: every subscription before it is on another channel, does not contain
\* t or holds no key for t, and the subscriptions behind it do not matter;
\* with no such subscription the answer is "No subscription for frame".
C32_LookupOrder ==
    [][(/\ cmd'.op = "decode"
        /\ cmd'.packet.channel # 0
        /\ cmd'.packet.len = FramePacketSize)
          => \E hits \in {Yielding(flash, subscriptions, cmd'.packet)} :
              IF hits = {}
              THEN response'.text = "No subscription for frame"
              ELSE \E first \in hits :
                    /\ \A k \in hits : first <= k
                    /\ LookupKey(flash, subscriptions, cmd'.packet, secret)
                          = KeyOfStored(flash, subscriptions, cmd'.packet, first)
                    /\ response'.text # "No subscription for frame"
                    /\ response'.opcode = "D"
                          => response'.frame
                               = Decrypt(Decrypt(KeyOfStored(flash, subscriptions,
                                                             cmd'.packet, first)[1],
                                                 cmd'.packet.keys[
                                                     KeyOfStored(flash, subscriptions,
                                                                 cmd'.packet, first)[2]]),
                                         cmd'.packet.frame)]_vars

\* C32 witness: every stored subscription yields a key for the frame decoded
\* and the first two yield different keys.
C32_Witness ==
    /\ cmd.op = "decode"
    /\ cmd.tamper = "none"
    /\ response.opcode = "D"
    /\ Len(subscriptions) = MaxStored
    /\ Yielding(flash, subscriptions, cmd.packet) = 1..MaxStored
    /\ KeyOfStored(flash, subscriptions, cmd.packet, 1)
          # KeyOfStored(flash, subscriptions, cmd.packet, 2)

\* C33: authenticate, called with the device key of the decoder on the packet
\* of a SUBSCRIBE, returns, and returns true exactly when the MAC the handler
\* computes over the decrypted keys matches; so it returns true for every
\* packet the headend generates for this decoder.
C33_AuthenticateAgrees ==
    cmd.op = "subscribe" =>
        /\ ~cmd.authenticate.panicked
        /\ cmd.authenticate.result = MacMatches(cmd.words, cmd.len, secret)
        /\ cmd.variant = "none" => cmd.authenticate.result

\* C34: should_ack is false exactly for the opcodes 'A' and 'G', and the
\* decoder sends no ACK in reaction to a header with one of them, neither
\* for the header nor for bytes that follow it; every other header is
\* acknowledged once.
C34_AckNeverAcked ==
    /\ \A o \in RxEmpty : should_ack(o) <=> o \notin {"A", "G"}
    /\ rx_opcode \in {"A", "G"} => (header_acks = 0 /\ body_acks = <<>>)
    /\ (rx_opcode \notin {"A", "G"} /\ rx_pc \in {"handler", "responded", "ignored"})
          => header_acks = 1

\* C34 witness: an ACK header and the bytes announced by its length have
\* been received and the decoder waits for the next header, no ACK sent.
C34_Witness ==
    /\ rx_opcode = "A"
    /\ rx_length = 8
    /\ rx_pc = "ignored"
    /\ dma_cnt = 0
    /\ header_acks = 0
    /\ body_acks = <<>>

\* C36 as stated: a header with length 0 and opcode LIST is answered with
\* the list, one with opcode ACK is ignored, and one with any other opcode
\* is answered with an error message.
C36_ZeroLength ==
    (rx_length = 0 /\ rx_pc \in {"responded", "ignored"}) =>
        IF rx_opcode = "L" THEN rx_pc = "responded" /\ rx_path[1] = "Ok"
        ELSE IF rx_opcode = "A" THEN rx_pc = "ignored"
        ELSE rx_pc = "responded" /\ rx_path[1] # "Ok"

\* wait_for_ack takes the header at the head of what the host sent.
TakesHeader ==
    /\ tx_pc \in {"wait_chunk", "wait_finish"}
    /\ tx_inbox # <<>>
    /\ Head(tx_inbox)[1] = "hdr"
    /\ tx_inbox' = Tail(tx_inbox)

\* The first n items of what the host sent are body bytes and the next one,
\* if there is one, is a header.
BytesThenHeader(n) ==
    /\ n <= Len(tx_inbox)
    /\ \A i \in 1..n : tx_inbox[i][1] = "byte"
    /\ Len(tx_inbox) > n => tx_inbox[n + 1][1] = "hdr"

\* C35: a header that is not an ACK, taken while the decoder waits for an ACK,
\* halts the device: from then on it writes nothing and reads nothing.  An ACK
\* header of length n > 0 makes wait_for_ack read exactly the n bytes that
\* follow it, and the handler then goes on as after a zero-length ACK.
C35_FramingError ==
    /\ [](tx_pc \in {"pad_chunk", "pad_finish"} => BytesThenHeader(tx_pad_left))
    /\ [](tx_pc \notin {"pad_chunk", "pad_finish"} => BytesThenHeader(0))
    /\ [][/\ (TakesHeader /\ Head(tx_inbox)[2] # "A") => tx_pc' = "halted"
          /\ tx_pc = "halted"
                => /\ tx_pc' = "halted"
                   /\ tx_cursor' = tx_cursor
                   /\ tx_acks_read' = tx_acks_read
                   /\ Len(tx_inbox') >= Len(tx_inbox)
                   /\ SubSeq(tx_inbox', 1, Len(tx_inbox)) = tx_inbox
          /\ (TakesHeader /\ Head(tx_inbox)[2] = "A")
                => /\ tx_acks_read' = tx_acks_read + 1
                   /\ tx_pad_left' = Head(tx_inbox)[3]
                   /\ tx_pc' = IF Head(tx_inbox)[3] = 0 THEN AfterWait(tx_pc)
                               ELSE IF tx_pc = "wait_chunk" THEN "pad_chunk"
                               ELSE "pad_finish"
          /\ (tx_pc \in {"pad_chunk", "pad_finish"} /\ tx_pc' # tx_pc)
                => /\ tx_pc' = AfterWait(tx_pc)
                   /\ tx_pad_left = 1
                   /\ tx_inbox' = Tail(tx_inbox)]_vars

\* C35 witness: the decoder took an ACK with a body at the end of the first
\* chunk, read its bytes, wrote the rest of the response, and halted in
\* finish_write on a header that is not an ACK.
C35_Witness ==
    /\ tx_pc = "halted"
    /\ tx_cursor = tx_length
    /\ tx_cursor > CHUNK_SIZE
    /\ tx_acks_read = 1
    /\ tx_host_kinds = {"ack_long", "non_ack"}

\* C37: T* is one value for all channels.  When a DECODE has emitted a frame
\* at t and the next command is a DECODE of a packet as the headend encoded
\* it, on another channel, for which the lookup finds a key, with a timestamp
\* of at most t, the answer is "Frame is from the past", no frame is emitted
\* and T* stays t; channel 0 is no exception on either side.
C37_GlobalReplay ==
    [][(/\ cmd.op = "decode"
        /\ response.opcode = "D"
        /\ cmd'.op = "decode"
        /\ cmd'.tamper = "none"
        /\ cmd'.packet.channel # cmd.packet.channel
        /\ cmd'.packet.timestamp <= cmd.packet.timestamp
        /\ LookupKey(flash, subscriptions, cmd'.packet, secret) # NoKey)
          => /\ most_recent_timestamp = cmd.packet.timestamp
             /\ response'.opcode = "E"
             /\ response'.text = "Frame is from the past"
             /\ response'.frame = NoFrame
             /\ most_recent_timestamp' = most_recent_timestamp]_vars

\* C37 witness: right after a frame of channel 0 was decoded at timestamp 11,
\* a frame the headend encoded for channel 1 at the covered timestamp 5 is
\* refused as from the past.
C37_Witness ==
    /\ cmd.op = "decode"
    /\ cmd.after = 0
    /\ cmd.tamper = "none"
    /\ cmd.packet.channel = 1
    /\ cmd.packet.timestamp = 5
    /\ Covered(cmd.packet)
    /\ most_recent_timestamp = 11
    /\ response.text = "Frame is from the past"

\* C38 as stated: when a SUBSCRIBE fails on a write of the flash that follows
\* the write of the length word, the subscriptions held in RAM are those from
\* before, and a power-on with the same image finds the flash log readable and
\* indexes those same records.
C38_AtomicInsert ==
    [][(/\ cmd'.op = "subscribe"
        /\ "failing" \in DOMAIN cmd'
        /\ cmd'.failing >= 1
        /\ response'.text = "Flash error: WriteFailed")
          => /\ subscriptions' = subscriptions
             /\ \E r \in {FlashInit(flash', secret)} :
                   /\ r.result = "Ok"
                   /\ r.subscriptions = subscriptions
                   /\ StoredTriples(r.flash, r.subscriptions)
                        = StoredTriples(flash, subscriptions)]_vars

\* The part of C38 about the running session: a SUBSCRIBE that fails on a
\* flash write leaves the index in RAM, and so what LIST and DECODE see, alone.
C38_SessionUnchanged ==
    [][(/\ cmd'.op = "subscribe"
        /\ "failing" \in DOMAIN cmd'
        /\ response'.opcode = "E")
          => /\ subscriptions' = subscriptions
             /\ StoredTriples(flash', subscriptions') = StoredTriples(flash, subscriptions)
             /\ most_recent_timestamp' = most_recent_timestamp]_vars

\* A state of the C38 case: the first write_128 of a SUBSCRIBE on the empty
\* store failed; the index is empty and a power-on would index one record.
C38_PhantomRecord ==
    /\ cmd.op = "subscribe"
    /\ "failing" \in DOMAIN cmd
    /\ cmd.failing = 1
    /\ response.text = "Flash error: WriteFailed"
    /\ subscriptions = <<>>
    /\ Len(FlashInit(flash, secret).subscriptions) = 1
    /\ ~OnGrid(next_entry_addr)

\* C39: on the keys generated from the blocks of [start, end], the earlier
\* key_for_frame, which walks the keys with a running block start, returns the
\* key of the same position as the current one, which zips the keys with
\* characterize_range(start, end); it does not overflow; and both return None
\* exactly when the timestamp lies outside [start, end] or the channel is
\* another.
C39_LegacyLookupAgrees ==
    range_pc = "looked" =>
        /\ ~lookup.legacy.panicked
        /\ (lookup.legacy.pos = 0) <=> (lookup.current = NoKey)
        /\ (lookup.current = NoKey)
              <=> \/ lookup.t < range_a
                  \/ lookup.t > range_b
                  \/ lookup.channel # LookupChannel
        /\ lookup.current # NoKey
              => /\ lookup.legacy.pos \in 1..Len(range_res)
                 /\ BlockContains(range_res[lookup.legacy.pos], lookup.t)
                 /\ lookup.current
                      = <<KeyForBitrange(range_res[lookup.legacy.pos][1],
                                         range_res[lookup.legacy.pos][2],
                                         LookupChannel, 1),
                          range_res[lookup.legacy.pos][2]>>

\* C39 witness: in the keys of [3, 47] both lookups return the fifth key, that
\* of the block (16, 2), for timestamp 21.
C39_Witness ==
    /\ range_pc = "looked"
    /\ range_a = 3
    /\ range_b = 47
    /\ lookup.t = 21
    /\ lookup.channel = LookupChannel
    /\ lookup.legacy = [panicked |-> FALSE, pos |-> 5]
    /\ lookup.current = <<KeyForBitrange(16, 2, LookupChannel, 1), 2>>

=============================================================================
